---- MODULE Spec2Model ----
(***************************************************************************)
(* Verification model of the aquarium_light engine                         *)
(*   clouds.py       CloudDeltaWithShimmer   (specification Spec)          *)
(*   suncurve.py     SunCurve                (specification SpecSun)       *)
(*   rgbw_tuning.py  map_rgbw_linear         (specification SpecGamut)     *)
(*   mooncurve.py    MoonCurve               (specification SpecMoon)      *)
(*   config_loader.py load_runtime_config    (specification SpecConfig)    *)
(*   aquarium_light_daemon.py main, one tick (specification SpecDaemon)    *)
(*                                                                         *)
(* Python floats are represented in fixed point: every float quantity is   *)
(* an integer number of a stated unit (DropScale, ShimScale, ...).  An     *)
(* Optional[...] field is a sequence of length 0 (None) or 1 (the value).  *)
(***************************************************************************)
EXTENDS Integers, Sequences, FiniteSets, TLC

VARIABLES
    \* ---- CloudDeltaWithShimmer instance fields (clouds.py:143-152)
    current_day_key,    \* None or the local calendar day
    current_day_type,   \* None or an index into self.day_types
    drop,               \* cloud drop, in 1/DropScale
    shimmer_state,      \* shimmer OU state, in 1/ShimScale
    last_ts,            \* None or the previous call's timestamp
    \* ---- one get_multiplier activation per caller
    pc,                 \* position of the caller inside get_multiplier
    now_ts,             \* argument now_ts
    base_brightness,    \* argument base_brightness, in 1/10
    dt,                 \* local dt = now_ts - last_ts (line 247)
    step_dt,            \* the clamped dt of the _step_* functions run so far
    draws,              \* the rng draws made by the activation so far
    entry,              \* the instance fields as they were when the call began
    ret,                \* None or the returned factor, in 1/FactorScale
    \* ---- SunCurve
    sun,                \* None or the constructed SunCurve
    sun_out,            \* None or the last sample call and its result
    \* ---- rgbw_tuning.py
    rgbw,               \* None or the last map_rgbw_linear call and its result
    pwm,                \* None or the last linear_to_pwm call and its result
    \* ---- MoonCurve
    moon,               \* None or the constructed MoonCurve
    moon_out,           \* None or the last get_state call and its result
    \* ---- config_loader.py
    config_file,        \* the parsed JSON file: constants and versions
    resolved,           \* None or the last load_runtime_config call and its result
    \* ---- aquarium_light_daemon.py
    tick                \* None or the last tick of the control loop: what it
                        \* read, what it computed and what it sent to the lamp

cloud_vars == << current_day_key, current_day_type, drop, shimmer_state, last_ts,
                 pc, now_ts, base_brightness, dt, step_dt, draws, entry, ret >>

sun_vars == << sun, sun_out >>

gamut_vars == << rgbw, pwm >>

moon_vars == << moon, moon_out >>

config_vars == << config_file, resolved >>

daemon_vars == << tick >>

vars == << cloud_vars, sun_vars, gamut_vars, moon_vars, config_vars, daemon_vars >>

----------------------------------------------------------------------------
\* Helpers shared by all components

None == << >>
Some(x) == << x >>
Val(o) == o[1]

Max(a, b) == IF a >= b THEN a ELSE b
Min(a, b) == IF a <= b THEN a ELSE b
Abs(a) == IF a >= 0 THEN a ELSE -a

\* a / b rounded to the nearest integer (half up), b > 0
RoundDiv(a, b) == (2 * a + b) \div (2 * b)

----------------------------------------------------------------------------
\* clouds.py

\* bounds of the explored behaviours
MaxTs == 5          \* timestamps are 0..MaxTs
SecPerDay == 3      \* length of a local calendar day in timestamp units
RandRes == 20       \* rng.random() is drawn from {0/RandRes .. (RandRes-1)/RandRes}

\* fixed-point units
DropScale == 5
ShimScale == 2
AmpScale == 25
FactorScale == DropScale * AmpScale * ShimScale

Callers == {"main", "other"}

\* The constructor arguments of the instance under test (clouds.py:62-71).
\* volatility / shimmer_volatility are in 1/10, cloud_speed in 1/10,
\* shimmer_amp in 1/AmpScale.
Params == [ cloud_time_scale_sec   |-> 8,
            shimmer_time_scale_sec |-> 4,
            shimmer_amp            |-> 1,
            shimmer_volatility     |-> 3,
            max_dt_sec             |-> 2 ]

\* self.day_types: prob is the weight before normalisation (in 1/100),
\* center_drop/min_drop/max_drop in 1/DropScale, volatility in 1/10,
\* cloud_speed in 1/10, burst_prob_per_min in 1/10 per minute,
\* burst_strength in 1/10, shimmer_boost an integer.
DayTypes == <<
    [ name |-> "bright", prob |-> 65, center_drop |-> 1, volatility |-> 1,
      min_drop |-> -1, max_drop |-> 1, cloud_speed |-> 5,
      burst_prob_per_min |-> 0, burst_strength |-> 0, shimmer_boost |-> 1 ],
    [ name |-> "cloudy", prob |-> 25, center_drop |-> 0, volatility |-> 2,
      min_drop |-> -2, max_drop |-> 1, cloud_speed |-> 8,
      burst_prob_per_min |-> 6, burst_strength |-> 5, shimmer_boost |-> 0 ],
    [ name |-> "very_cloudy", prob |-> 10, center_drop |-> -2, volatility |-> 3,
      min_drop |-> -6, max_drop |-> 1, cloud_speed |-> 12,
      burst_prob_per_min |-> 60, burst_strength |-> 6, shimmer_boost |-> 2 ] >>

\* the inputs a caller may pass and the values the rng may deliver
BaseValues == {-5, 0, 10}           \* base_brightness, in 1/10
GaussValues == {-30, 0, 30}         \* rng.gauss(0, 1), in 1/10
BurstRand == {0, 50, 500}           \* rng.random() of the burst test, in 1/1000

\* sum(dt.prob for dt in day_types)
total_p == LET S[i \in 0..Len(DayTypes)] ==
                   IF i = 0 THEN 0 ELSE S[i - 1] + DayTypes[i].prob
           IN S[Len(DayTypes)]

\* time.localtime(ts) -> (tm_year, tm_mon, tm_mday): the local calendar day
_day_key_from_ts(ts) == ts \div SecPerDay

\* _pick_day_type for r = rnd / RandRes: the first day type whose cumulated
\* normalised prob reaches r, else the last one
_pick_day_type(rnd) ==
    LET acc[i \in 0..Len(DayTypes)] ==
            IF i = 0 THEN 0 ELSE acc[i - 1] + DayTypes[i].prob
        hit == { i \in 1..Len(DayTypes) : rnd * total_p <= acc[i] * RandRes }
    IN IF hit # {} THEN CHOOSE i \in hit : \A j \in hit : i <= j
                   ELSE Len(DayTypes)

\* math.sqrt(d), in 1/10 (rounded down)
Sqrt10(d) == CHOOSE r \in 0..(10 * d + 1) : r * r <= 100 * d /\ 100 * d < (r + 1) * (r + 1)

\* ClampDt without the upper clamp to max_dt_sec
ClampDtNoMax(d) == Max(0, d)

\* dt = max(0.0, min(dt, self.max_dt_sec))
ClampDt(d) == Max(0, Min(d, Params.max_dt_sec))

\* 1.0 - math.exp(-x) for x = xm / 1000, in 1/1000 (series to x^3)
OneMinusExp(xm) ==
    xm - (xm * xm) \div 2000 + (xm * xm * xm) \div 6000000

\* the OU update of drop without the clamp of line 198
OuDropUnclamped(cfg, d, sdt, n) ==
    d + RoundDiv(  cfg.cloud_speed * (cfg.center_drop - d) * sdt * 100
                 + cfg.volatility * Sqrt10(sdt) * n * DropScale * Params.cloud_time_scale_sec,
                 1000 * Params.cloud_time_scale_sec)

\* the OU update of drop and its clamp (lines 190-198); n is the gauss draw
OuDrop(cfg, d, sdt, n) ==
    LET inc == RoundDiv(  cfg.cloud_speed * (cfg.center_drop - d) * sdt * 100
                        + cfg.volatility * Sqrt10(sdt) * n * DropScale * Params.cloud_time_scale_sec,
                        1000 * Params.cloud_time_scale_sec)
    IN Max(cfg.min_drop, Min(cfg.max_drop, d + inc))

\* whether the burst test of lines 201-204 passes for the draw u (in 1/1000)
BurstHits(cfg, sdt, u) ==
    /\ cfg.burst_prob_per_min > 0
    /\ u < OneMinusExp((cfg.burst_prob_per_min * sdt * 1000) \div 600)

\* a burst that pushes drop away from 0: drop *= (1 + burst_strength)
BurstDropAway(cfg, d) ==
    Max(cfg.min_drop, Min(cfg.max_drop, RoundDiv(d * (10 + cfg.burst_strength), 10)))

\* lines 205-206: drop *= (1 - burst_strength), clamped again
BurstDrop(cfg, d) ==
    Max(cfg.min_drop, Min(cfg.max_drop, RoundDiv(d * (10 - cfg.burst_strength), 10)))

\* the OU update of _shimmer_state and its clamp (lines 214-225)
OuShimmer(s, sdt, n) ==
    LET inc == RoundDiv(  (0 - s) * sdt * 100
                        + Params.shimmer_volatility * Sqrt10(sdt) * n * ShimScale
                          * Params.shimmer_time_scale_sec,
                        1000 * Params.shimmer_time_scale_sec)
    IN Max(-ShimScale, Min(ShimScale, s + inc))

\* local_amp = shimmer_amp * shimmer_boost, in 1/AmpScale; max_factor = 1 + local_amp
LocalAmp(cfg) == Params.shimmer_amp * cfg.shimmer_boost
MaxFactor(cfg) == DropScale * ShimScale * (AmpScale + LocalAmp(cfg))

\* a cloud multiplier that lets a positive drop brighten: 1 + drop
CloudMultiplierSigned(d) == DropScale + d

\* cloud_multiplier = 1 - max(0, -drop), in 1/DropScale
CloudMultiplier(d) == DropScale - Max(0, -d)

\* Factor with the final clamp of line 274 left out
FactorUnclamped(cfg, d, s) ==
    CloudMultiplier(d) * (AmpScale * ShimScale + LocalAmp(cfg) * s)

\* lines 258-276: the factor for drop d and shimmer state s, in 1/FactorScale
Factor(cfg, d, s) ==
    LET shimmer_multiplier == AmpScale * ShimScale + LocalAmp(cfg) * s
        factor == CloudMultiplier(d) * shimmer_multiplier
    IN Max(0, Min(MaxFactor(cfg), factor))

One == FactorScale      \* the float 1.0 as a factor

NoDraws == [ pick |-> 0, gauss |-> 0, burst |-> 0 ]
NoEntry == [ drop |-> 0, shimmer_state |-> 0, current_day_key |-> None,
             current_day_type |-> None, last_ts |-> None, in_progress |-> {} ]

\* the callers that are inside get_multiplier, other than c
InProgress(c) == { o \in Callers \ {c} : pc[o] \notin {"idle", "done"} }

CloudInit ==
    /\ current_day_key = None
    /\ current_day_type = None
    /\ drop = 0
    /\ shimmer_state = 0
    /\ last_ts = None
    /\ pc = [c \in Callers |-> "idle"]
    /\ now_ts = [c \in Callers |-> 0]
    /\ base_brightness = [c \in Callers |-> 0]
    /\ dt = [c \in Callers |-> 0]
    /\ step_dt = [c \in Callers |-> << >>]
    /\ draws = [c \in Callers |-> NoDraws]
    /\ entry = [c \in Callers |-> NoEntry]
    /\ ret = [c \in Callers |-> None]

fields == << current_day_key, current_day_type, drop, shimmer_state, last_ts >>

\* get_multiplier(now, base) is entered by caller c
Call(c, now, base) ==
    /\ pc[c] = "idle"
    /\ pc' = [pc EXCEPT ![c] = "ensure_day"]
    /\ now_ts' = [now_ts EXCEPT ![c] = now]
    /\ base_brightness' = [base_brightness EXCEPT ![c] = base]
    /\ entry' = [entry EXCEPT ![c] =
                    [ drop |-> drop, shimmer_state |-> shimmer_state,
                      current_day_key |-> current_day_key,
                      current_day_type |-> current_day_type, last_ts |-> last_ts,
                      in_progress |-> InProgress(c) ]]
    /\ UNCHANGED << fields, dt, step_dt, draws, ret >>

\* _ensure_day_state that re-draws the day type but keeps the shimmer state
EnsureDayStateKeepShimmer(c, rnd) ==
    /\ pc[c] = "ensure_day"
    /\ LET key == _day_key_from_ts(now_ts[c])
       IN IF Some(key) # current_day_key
          THEN /\ current_day_key' = Some(key)
               /\ current_day_type' = Some(_pick_day_type(rnd))
               /\ drop' = DayTypes[_pick_day_type(rnd)].center_drop
               /\ draws' = [draws EXCEPT ![c].pick = @ + 1]
               /\ UNCHANGED shimmer_state
          ELSE /\ rnd = 0
               /\ UNCHANGED << current_day_key, current_day_type, drop,
                               shimmer_state, draws >>
    /\ pc' = [pc EXCEPT ![c] = "read_dt"]
    /\ UNCHANGED << last_ts, now_ts, base_brightness, dt, step_dt, entry, ret >>

\* _ensure_day_state without the comparison of line 172: every call re-draws
EnsureDayStateEveryCall(c, rnd) ==
    /\ pc[c] = "ensure_day"
    /\ current_day_key' = Some(_day_key_from_ts(now_ts[c]))
    /\ current_day_type' = Some(_pick_day_type(rnd))
    /\ drop' = DayTypes[_pick_day_type(rnd)].center_drop
    /\ shimmer_state' = 0
    /\ draws' = [draws EXCEPT ![c].pick = @ + 1]
    /\ pc' = [pc EXCEPT ![c] = "read_dt"]
    /\ UNCHANGED << last_ts, now_ts, base_brightness, dt, step_dt, entry, ret >>

\* line 242: self._ensure_day_state(now_ts); rnd is the draw of _pick_day_type
EnsureDayState(c, rnd) ==
    /\ pc[c] = "ensure_day"
    /\ LET key == _day_key_from_ts(now_ts[c])
       IN IF Some(key) # current_day_key
          THEN /\ current_day_key' = Some(key)
               /\ current_day_type' = Some(_pick_day_type(rnd))
               /\ drop' = DayTypes[_pick_day_type(rnd)].center_drop
               /\ shimmer_state' = 0
               /\ draws' = [draws EXCEPT ![c].pick = @ + 1]
          ELSE /\ rnd = 0
               /\ UNCHANGED << current_day_key, current_day_type, drop,
                               shimmer_state, draws >>
    /\ pc' = [pc EXCEPT ![c] = "read_dt"]
    /\ UNCHANGED << last_ts, now_ts, base_brightness, dt, step_dt, entry, ret >>

\* get_multiplier with a last_ts of None taken as timestamp 0
ReadDtFromEpoch(c) ==
    /\ pc[c] = "read_dt"
    /\ last_ts' = IF last_ts = None THEN Some(0) ELSE last_ts
    /\ dt' = [dt EXCEPT ![c] = now_ts[c] - Val(last_ts')]
    /\ pc' = [pc EXCEPT ![c] = "write_ts"]
    /\ UNCHANGED << current_day_key, current_day_type, drop, shimmer_state,
                    now_ts, base_brightness, step_dt, draws, entry, ret >>

\* lines 244-247: if self.last_ts is None: self.last_ts = now_ts
\*                dt = now_ts - self.last_ts
ReadDt(c) ==
    /\ pc[c] = "read_dt"
    /\ last_ts' = IF last_ts = None THEN Some(now_ts[c]) ELSE last_ts
    /\ dt' = [dt EXCEPT ![c] = now_ts[c] - Val(last_ts')]
    /\ pc' = [pc EXCEPT ![c] = "write_ts"]
    /\ UNCHANGED << current_day_key, current_day_type, drop, shimmer_state,
                    now_ts, base_brightness, step_dt, draws, entry, ret >>

\* get_multiplier with the early return of an off tick placed before line 248
WriteLastTsOnTicksOnly(c) ==
    /\ pc[c] = "write_ts"
    /\ last_ts' = IF base_brightness[c] <= 0 THEN last_ts ELSE Some(now_ts[c])
    /\ pc' = [pc EXCEPT ![c] = "check_off"]
    /\ UNCHANGED << current_day_key, current_day_type, drop, shimmer_state,
                    now_ts, base_brightness, dt, step_dt, draws, entry, ret >>

\* get_multiplier without the assignment of line 248
WriteLastTsSkipped(c) ==
    /\ pc[c] = "write_ts"
    /\ pc' = [pc EXCEPT ![c] = "check_off"]
    /\ UNCHANGED << current_day_key, current_day_type, drop, shimmer_state, last_ts,
                    now_ts, base_brightness, dt, step_dt, draws, entry, ret >>

\* line 248: self.last_ts = now_ts
WriteLastTs(c) ==
    /\ pc[c] = "write_ts"
    /\ last_ts' = Some(now_ts[c])
    /\ pc' = [pc EXCEPT ![c] = "check_off"]
    /\ UNCHANGED << current_day_key, current_day_type, drop, shimmer_state,
                    now_ts, base_brightness, dt, step_dt, draws, entry, ret >>

\* lines 251-252: if base_brightness <= 0.0 or self.current_day_type is None:
\*                    return 1.0
CheckOff(c) ==
    /\ pc[c] = "check_off"
    /\ IF base_brightness[c] <= 0 \/ current_day_type = None
       THEN /\ ret' = [ret EXCEPT ![c] = Some(One)]
            /\ pc' = [pc EXCEPT ![c] = "done"]
       ELSE /\ pc' = [pc EXCEPT ![c] = "step_drop"]
            /\ UNCHANGED ret
    /\ UNCHANGED << fields, now_ts, base_brightness, dt, step_dt, draws, entry >>

\* line 255: self._step_cloud_drop(dt); n is the gauss draw, u the burst draw
StepCloudDrop(c, n, u) ==
    /\ pc[c] = "step_drop"
    /\ pc' = [pc EXCEPT ![c] = "step_shimmer"]
    /\ IF current_day_type = None
       THEN /\ n = 0 /\ u = 0
            /\ UNCHANGED << drop, step_dt, draws >>
       ELSE LET sdt == ClampDt(dt[c])
                cfg == DayTypes[Val(current_day_type)]
                d1 == OuDrop(cfg, drop, sdt, n)
            IN /\ step_dt' = [step_dt EXCEPT ![c] = Append(@, sdt)]
               /\ IF sdt = 0
                  THEN /\ n = 0 /\ u = 0
                       /\ UNCHANGED << drop, draws >>
                  ELSE IF cfg.burst_prob_per_min > 0
                       THEN /\ drop' = IF BurstHits(cfg, sdt, u)
                                       THEN BurstDrop(cfg, d1) ELSE d1
                            /\ draws' = [draws EXCEPT ![c].gauss = @ + 1,
                                                      ![c].burst = @ + 1]
                       ELSE /\ u = 0
                            /\ drop' = d1
                            /\ draws' = [draws EXCEPT ![c].gauss = @ + 1]
    /\ UNCHANGED << current_day_key, current_day_type, shimmer_state, last_ts,
                    now_ts, base_brightness, dt, entry, ret >>

\* line 256: self._step_shimmer(dt); n is the gauss draw
StepShimmer(c, n) ==
    /\ pc[c] = "step_shimmer"
    /\ pc' = [pc EXCEPT ![c] = "combine"]
    /\ LET sdt == ClampDt(dt[c])
       IN /\ step_dt' = [step_dt EXCEPT ![c] = Append(@, sdt)]
          /\ IF sdt = 0
             THEN /\ n = 0
                  /\ UNCHANGED << shimmer_state, draws >>
             ELSE /\ shimmer_state' = OuShimmer(shimmer_state, sdt, n)
                  /\ draws' = [draws EXCEPT ![c].gauss = @ + 1]
    /\ UNCHANGED << current_day_key, current_day_type, drop, last_ts,
                    now_ts, base_brightness, dt, entry, ret >>

\* lines 258-276: combine and return factor
Combine(c) ==
    /\ pc[c] = "combine"
    /\ ret' = [ret EXCEPT ![c] =
                 Some(Factor(DayTypes[Val(current_day_type)], drop, shimmer_state))]
    /\ pc' = [pc EXCEPT ![c] = "done"]
    /\ UNCHANGED << fields, now_ts, base_brightness, dt, step_dt, draws, entry >>

\* the caller takes the returned value; the activation record is dropped
Return(c) ==
    /\ pc[c] = "done"
    /\ pc' = [pc EXCEPT ![c] = "idle"]
    /\ now_ts' = [now_ts EXCEPT ![c] = 0]
    /\ base_brightness' = [base_brightness EXCEPT ![c] = 0]
    /\ dt' = [dt EXCEPT ![c] = 0]
    /\ step_dt' = [step_dt EXCEPT ![c] = << >>]
    /\ draws' = [draws EXCEPT ![c] = NoDraws]
    /\ entry' = [o \in Callers |->
                    IF o = c THEN NoEntry
                    ELSE [entry[o] EXCEPT !.in_progress = @ \ {c}]]
    /\ ret' = [ret EXCEPT ![c] = None]
    /\ UNCHANGED fields

----------------------------------------------------------------------------
\* suncurve.py
\* Hours are counted in minutes, brightness in 1/BScale, colour temperature in
\* Kelvin; math.cos is a table in 1/CosScale by whole degrees.

DayMin == 24 * 60
BScale == 10 * 1000
CosScale == 10 * 1000

CosTab == <<
      10000, 9998, 9994, 9986, 9976, 9962, 9945, 9925, 9903, 9877, 9848, 9816, 9781,
      9744, 9703, 9659, 9613, 9563, 9511, 9455, 9397, 9336, 9272, 9205, 9135, 9063,
      8988, 8910, 8829, 8746, 8660, 8572, 8480, 8387, 8290, 8192, 8090, 7986, 7880,
      7771, 7660, 7547, 7431, 7314, 7193, 7071, 6947, 6820, 6691, 6561, 6428, 6293,
      6157, 6018, 5878, 5736, 5592, 5446, 5299, 5150, 5000, 4848, 4695, 4540, 4384,
      4226, 4067, 3907, 3746, 3584, 3420, 3256, 3090, 2924, 2756, 2588, 2419, 2250,
      2079, 1908, 1736, 1564, 1392, 1219, 1045, 872, 698, 523, 349, 175, 0 >>

\* math.cos of an angle of deg degrees, in 1/CosScale
Cos(deg) ==
    LET d == deg % 360
    IN IF d <= 90 THEN CosTab[d + 1]
       ELSE IF d <= 180 THEN 0 - CosTab[180 - d + 1]
       ELSE IF d <= 270 THEN 0 - CosTab[d - 180 + 1]
       ELSE CosTab[360 - d + 1]

\* SunCurve.__init__ taking a window of length 0 for half a day
SunCurveNewHalfDay(t_start, t_end, H_eq, B_peak_max, tau_minutes, delta_T, T_min, T_max, T_blue) ==
    LET ts == t_start % DayMin
        te == t_end % DayMin
        D0 == (te - ts) % DayMin
        D  == IF D0 = 0 THEN DayMin \div 2 ELSE D0
        a  == RoundDiv(2 * H_eq * BScale, D)
    IN [ t_start |-> ts, t_end |-> te, H_eq |-> H_eq, B_peak_max |-> B_peak_max,
         tau_minutes |-> tau_minutes, delta_T |-> delta_T,
         T_min |-> T_min, T_max |-> T_max, T_blue |-> T_blue,
         D |-> D,
         a_unclipped |-> a,
         B_peak_eff |-> Min(a, B_peak_max),
         tau |-> Max(0, Min(tau_minutes, D \div 4)),
         warning |-> IF a < B_peak_max THEN "not reached"
                     ELSE IF a > B_peak_max THEN "clipped" ELSE "" ]

\* SunCurve.__init__
SunCurveNew(t_start, t_end, H_eq, B_peak_max, tau_minutes, delta_T, T_min, T_max, T_blue) ==
    LET ts == t_start % DayMin
        te == t_end % DayMin
        D0 == (te - ts) % DayMin
        D  == IF D0 = 0 THEN DayMin ELSE D0
        a  == RoundDiv(2 * H_eq * BScale, D)
    IN [ t_start |-> ts, t_end |-> te, H_eq |-> H_eq, B_peak_max |-> B_peak_max,
         tau_minutes |-> tau_minutes, delta_T |-> delta_T,
         T_min |-> T_min, T_max |-> T_max, T_blue |-> T_blue,
         D |-> D,
         a_unclipped |-> a,
         B_peak_eff |-> Min(a, B_peak_max),
         tau |-> Max(0, Min(tau_minutes, D \div 4)),
         warning |-> IF a < B_peak_max THEN "not reached"
                     ELSE IF a > B_peak_max THEN "clipped" ELSE "" ]

\* _local_offset_and_phase: offset and inside; u = offset / D is kept as the pair
_local_offset_and_phase(self, t_hours) ==
    LET t_mod == t_hours % DayMin
        offset == (t_mod - self.t_start) % DayMin
    IN [ offset |-> offset, inside |-> offset <= self.D ]

\* _shape with the factor 2 of the angle left out: 0.5 * (1 - cos(pi * u))
ShapeHalfTurn(offset, D) == CosScale - Cos(RoundDiv(180 * offset, D))

\* _shape(u) for u = offset / D: 0.5 * (1 - cos(2 pi u)), in 1/(2 CosScale)
Shape(offset, D) == CosScale - Cos(RoundDiv(360 * offset, D))

\* _brightness_float
_brightness_float(self, t_hours) ==
    LET p == _local_offset_and_phase(self, t_hours)
        B_raw == (self.a_unclipped * Shape(p.offset, self.D) + CosScale) \div (2 * CosScale)
    IN IF ~p.inside THEN 0
       ELSE IF self.B_peak_max < BScale
            THEN Max(0, Min(B_raw, self.B_peak_max))
            ELSE Max(0, B_raw)

\* _cct_base_from_B; b is B / B_peak_eff in 1/1000
_cct_base_from_B(self, B) ==
    IF self.B_peak_eff <= 0 \/ B <= 0 THEN 0
    ELSE LET b == Max(0, Min(RoundDiv(B * 1000, self.B_peak_eff), 1000))
         IN IF b <= 0 THEN 0
            ELSE IF b <= 100 THEN 6000 + RoundDiv((6500 - 6000) * b, 100)
            ELSE IF b <= 250 THEN 6500 + RoundDiv((3000 - 6500) * (b - 100), 250 - 100)
            ELSE IF b <= 850 THEN 3000 + RoundDiv((6000 - 3000) * (b - 250), 850 - 250)
            ELSE 6000 + RoundDiv((6500 - 6000) * (b - 850), 1000 - 850)

\* _cct_float
_cct_float(self, t_hours, B) ==
    LET p == _local_offset_and_phase(self, t_hours)
        T0 == _cct_base_from_B(self, B)
        T1 == IF self.delta_T # 0
              THEN T0 + RoundDiv(self.delta_T * (self.D - 2 * p.offset), 2 * self.D)
              ELSE T0
        T2 == Max(self.T_min, Min(T1, self.T_max))
    IN IF B <= 0 THEN 0
       ELSE IF ~p.inside THEN 0
       ELSE IF T0 <= 0 THEN 0
       ELSE IF self.tau > 0 /\ p.offset <= self.tau
            THEN RoundDiv((self.tau - p.offset) * self.T_blue + p.offset * T2, self.tau)
       ELSE IF self.tau > 0 /\ self.D - self.tau <= p.offset /\ p.offset <= self.D
            THEN RoundDiv((self.tau - (self.D - p.offset)) * self.T_blue
                          + (self.D - p.offset) * T2, self.tau)
       ELSE T2

\* _cct_to_0_1000: the device colour, or the exception the division raises
_cct_to_0_1000(self, T) ==
    IF T <= 0 THEN [ value |-> 0, exc |-> "" ]
    ELSE IF self.T_max = self.T_min THEN [ value |-> 0, exc |-> "ZeroDivisionError" ]
    ELSE LET num == IF self.T_max > self.T_min THEN T - self.T_min ELSE self.T_min - T
             den == Abs(self.T_max - self.T_min)
         IN [ value |-> Max(0, Min(RoundDiv(1000 * num, den), 1000)), exc |-> "" ]

\* sample that quantizes the brightness without clipping it to 1.0 first
SampleNoClip(self, t_hours, raw) ==
    LET B == _brightness_float(self, t_hours)
        p == _local_offset_and_phase(self, t_hours)
        is_on == p.inside /\ B > 0
        T == _cct_float(self, t_hours, B)
        C == _cct_to_0_1000(self, T)
    IN IF ~is_on THEN [ B |-> 0, C |-> 0, is_on |-> FALSE, exc |-> "" ]
       ELSE IF raw THEN [ B |-> B, C |-> T, is_on |-> TRUE, exc |-> "" ]
       ELSE [ B |-> RoundDiv(1000 * B, BScale),
              C |-> C.value, is_on |-> TRUE, exc |-> C.exc ]

\* sample that reports is_on for every time inside the window
SampleOnInside(self, t_hours, raw) ==
    LET B == _brightness_float(self, t_hours)
        p == _local_offset_and_phase(self, t_hours)
        T == _cct_float(self, t_hours, B)
        C == _cct_to_0_1000(self, T)
    IN IF ~p.inside THEN [ B |-> 0, C |-> 0, is_on |-> FALSE, exc |-> "" ]
       ELSE IF raw THEN [ B |-> B, C |-> T, is_on |-> TRUE, exc |-> "" ]
       ELSE [ B |-> RoundDiv(1000 * Max(0, Min(B, BScale)), BScale),
              C |-> C.value, is_on |-> TRUE, exc |-> C.exc ]

\* sample(t_hours, raw): brightness (1/BScale raw, 0..1000 quantized), colour
\* (Kelvin raw, 0..1000 quantized), is_on
Sample(self, t_hours, raw) ==
    LET B == _brightness_float(self, t_hours)
        p == _local_offset_and_phase(self, t_hours)
        is_on == p.inside /\ B > 0
        T == _cct_float(self, t_hours, B)
        C == _cct_to_0_1000(self, T)
    IN IF ~is_on THEN [ B |-> 0, C |-> 0, is_on |-> FALSE, exc |-> "" ]
       ELSE IF raw THEN [ B |-> B, C |-> T, is_on |-> TRUE, exc |-> "" ]
       ELSE [ B |-> RoundDiv(1000 * Max(0, Min(B, BScale)), BScale),
              C |-> C.value, is_on |-> TRUE, exc |-> C.exc ]

\* the curves constructed and the times sampled
SunWindows == { << 0, 6 >>, << 0, 20 >>, << 6, 20 >>, << 6, 6 >>, << 22, 3 >>, << 22, 20 >>, << 30, 44 >> }
SunHeq == { 0, 4, 10 }
SunPeakMax == { BScale \div 2, BScale }
SunTau == { 0, 5, 60 }
SunDeltaT == { 0, 800 }
SunKelvin == { << 2700, 6500, 6500 >>, << 4000, 4000, 6500 >>, << 5000, 3000, 6500 >> }
SampleTimes == { 30 * k : k \in (0 - 2)..(2 * 24 + 1) }

SunIdle == sun = None /\ sun_out = None

\* curve = SunCurve(...)
SunConstruct ==
    \E w \in SunWindows, h \in SunHeq, bp \in SunPeakMax, tau \in SunTau,
       dT \in SunDeltaT, k \in SunKelvin :
        /\ sun = None
        /\ sun' = Some(SunCurveNew(60 * w[1], 60 * w[2], 60 * h, bp, tau, dT, k[1], k[2], k[3]))
        /\ sun_out' = None

\* curve.sample(t_hours, raw); sample changes no field of the curve, so one
\* sample per behaviour reaches every result
SunSample ==
    \E t \in SampleTimes, raw \in BOOLEAN :
        /\ sun # None
        /\ sun_out = None
        /\ sun_out' = Some([ t_hours |-> t, raw |-> raw, res |-> Sample(Val(sun), t, raw) ])
        /\ UNCHANGED sun

----------------------------------------------------------------------------
\* rgbw_tuning.py
\* I is counted in 1/IScale, w and s in 1/WsScale, t in 1/TScale.  The four
\* channels are exact fractions: numerators R, G, B, W over one denominator den.

IScale == 2 * 5
WsScale == 2 * 2
TScale == 1 + 1
\* s_eff = s * (0.25 + 0.75 w) is counted in 1/SeScale
SeScale == 4 * WsScale * WsScale
\* the denominator of the channels before the rescale
ChDen == IScale * SeScale * 100 * WsScale * TScale * 10

\* clamp(x, lo, hi)
clamp(x, lo, hi) == Max(lo, Min(hi, x))

\* lines 19-41: the channels before any clamp, over ChDen
RawChannels(I0, w0, s0, t0) ==
    LET I == clamp(I0, 0, IScale)
        w == clamp(w0, 0, WsScale)
        sat == clamp(s0, 0, WsScale)
        t == clamp(t0, 0 - TScale, TScale)
        s_eff == clamp(sat * (WsScale + 3 * w), 0, SeScale)
        W == I * (SeScale - s_eff) * 100 * WsScale * TScale * 10
        R == I * s_eff * (70 * WsScale + 25 * w) * TScale * 10
        G == I * s_eff * (28 * WsScale - 18 * w) * TScale * 10
        B == I * s_eff * 12 * (WsScale - w) * TScale * 10
        \* adj = 0.12 * abs(t) * I * s_eff, here adj / 10
        adj10 == 12 * Abs(t) * I * s_eff * WsScale
    IN IF t > 0
       THEN [ R |-> R - 7 * adj10, G |-> G + 10 * adj10, B |-> B - 3 * adj10, W |-> W ]
       ELSE IF t < 0
       THEN [ R |-> R + 9 * adj10, G |-> G - 10 * adj10,
              B |-> B + (adj10 \div WsScale) * (WsScale - w), W |-> W ]
       ELSE [ R |-> R, G |-> G, B |-> B, W |-> W ]

\* lines 43-46 left out: the channels go into the rescale as they are
NoClampChannels(ch) == ch

\* lines 43-46: each channel clamped to [0, 1]
ClampChannels(ch) ==
    [ R |-> clamp(ch.R, 0, ChDen), G |-> clamp(ch.G, 0, ChDen),
      B |-> clamp(ch.B, 0, ChDen), W |-> clamp(ch.W, 0, ChDen) ]

\* lines 48-55: with preserve_total and S > 1e-6 every channel is multiplied by
\* scale = I / S and clamped again; the result is over den = IScale * S
Rescale(ch, I0, preserve_total) ==
    LET I == clamp(I0, 0, IScale)
        S == ch.R + ch.G + ch.B + ch.W
    IN IF preserve_total /\ S > ChDen \div 1000000
       THEN [ R |-> clamp(ch.R * I, 0, IScale * S), G |-> clamp(ch.G * I, 0, IScale * S),
              B |-> clamp(ch.B * I, 0, IScale * S), W |-> clamp(ch.W * I, 0, IScale * S),
              den |-> IScale * S ]
       ELSE [ R |-> ch.R, G |-> ch.G, B |-> ch.B, W |-> ch.W, den |-> ChDen ]

\* map_rgbw_linear(I, w, s, t, preserve_total)
map_rgbw_linear(I, w, s, t, preserve_total) ==
    Rescale(ClampChannels(RawChannels(I, w, s, t)), I, preserve_total)

\* the arguments tried, inside and outside their ranges
GamutI == { 0 - 1, 0, 1, IScale \div 2, IScale, IScale + 2 }
GamutW == (0 - 1)..(WsScale + 1)
GamutS == { 0 - 1, 0, 1, WsScale \div 2, WsScale, WsScale + 2 }
GamutT == (0 - TScale - 1)..(TScale + 1)

GamutIdle == rgbw = None /\ pwm = None

\* r, g, b, w = map_rgbw_linear(...); the function is pure, one call per
\* behaviour reaches every result
MapRgbw ==
    \E I \in GamutI, w \in GamutW, s \in GamutS, t \in GamutT, pt \in BOOLEAN :
        /\ rgbw = None
        /\ pwm = None
        /\ rgbw' = Some([ I |-> I, w |-> w, s |-> s, t |-> t, preserve_total |-> pt,
                          res |-> map_rgbw_linear(I, w, s, t, pt) ])
        /\ UNCHANGED pwm

----------------------------------------------------------------------------
\* mooncurve.py
\* The argument now is counted in half hours since the reference new moon
\* (REF_NEW_MOON_JD, 2000-01-06 14:24 UT), local time being UT; illumination is
\* counted in 1/IllumScale, max_brightness in 1/100, phase_fraction in degrees.

IllumScale == 10 * 10
\* ILLUM_THRESHOLD = 0.72, in 1/IllumScale
ILLUM_THRESHOLD == 72
\* SYNODIC_MONTH_DAYS = 29.530588853, in minutes
SynodicMinutes == 42524
\* the time of day of REF_NEW_MOON_JD = 2451550.1, in minutes: 0.1 day after noon
RefMinuteOfDay == 12 * 60 + 144

\* local_hour of lines 92-96, in minutes
LocalHour(now) == (RefMinuteOfDay + 30 * now) % DayMin

\* phase_info: the phase in degrees and the illumination 0.5 * (1 - cos)
phase_info(now) ==
    LET deg == RoundDiv(360 * 30 * now, SynodicMinutes) % 360
    IN [ phase_fraction |-> deg,
         illumination |-> RoundDiv((CosScale - Cos(deg)) * IllumScale, 2 * CosScale) ]

\* _in_window with the window closed at its end
InWindowClosed(hour, start, end) ==
    LET st == start % DayMin
        en == end % DayMin
        h == hour % DayMin
    IN IF st < en THEN st <= h /\ h <= en
                  ELSE h >= st \/ h <= en

\* _in_window with an empty window when start and end are equal modulo 24
InWindowEmptyWhenEqual(hour, start, end) ==
    LET st == start % DayMin
        en == end % DayMin
        h == hour % DayMin
    IN IF st < en THEN st <= h /\ h < en
                  ELSE st # en /\ (h >= st \/ h < en)

\* _in_window(hour, start, end), all in minutes
_in_window(hour, start, end) ==
    LET st == start % DayMin
        en == end % DayMin
        h == hour % DayMin
    IN IF st < en THEN st <= h /\ h < en
                  ELSE h >= st \/ h < en

\* get_state with the phase gate closed at the threshold itself
GetStateGateInclusive(self, now) ==
    LET info == phase_info(now)
    IN IF \/ _in_window(LocalHour(now), self.dark_start_hour, self.dark_end_hour)
          \/ info.illumination <= ILLUM_THRESHOLD
       THEN [ on |-> FALSE, brightness |-> 0, illumination |-> info.illumination,
              phase_fraction |-> info.phase_fraction, local_hour |-> LocalHour(now) ]
       ELSE [ on |-> TRUE,
              brightness |-> self.max_brightness
                             * Max(0, Min(IllumScale - ILLUM_THRESHOLD,
                                          info.illumination - ILLUM_THRESHOLD)),
              illumination |-> info.illumination,
              phase_fraction |-> info.phase_fraction, local_hour |-> LocalHour(now) ]

\* get_state(now); brightness = max_brightness * rel is counted in
\* 1/(100 * (IllumScale - ILLUM_THRESHOLD))
get_state(self, now) ==
    LET local_hour == LocalHour(now)
        info == phase_info(now)
        off == [ on |-> FALSE, brightness |-> 0, illumination |-> info.illumination,
                 phase_fraction |-> info.phase_fraction, local_hour |-> local_hour ]
        rel == Max(0, Min(IllumScale - ILLUM_THRESHOLD,
                          info.illumination - ILLUM_THRESHOLD))
    IN IF _in_window(local_hour, self.dark_start_hour, self.dark_end_hour) THEN off
       ELSE IF info.illumination < ILLUM_THRESHOLD THEN off
       ELSE [ on |-> TRUE, brightness |-> self.max_brightness * rel,
              illumination |-> info.illumination,
              phase_fraction |-> info.phase_fraction, local_hour |-> local_hour ]

\* the curves constructed (dark window in minutes: 2:00-7:00, 22:00-2:00,
\* 5:00-5:00, 26:00-31:00, 2:24-7:24, 22:24-1:24, 3:00-27:00) and the times
\* asked
MoonWindows ==
    { << 2 * 60, 7 * 60 >>, << 22 * 60, 2 * 60 >>, << 5 * 60, 5 * 60 >>,
      << 26 * 60, 31 * 60 >>, << 2 * 60 + 24, 7 * 60 + 24 >>,
      << 22 * 60 + 24, 60 + 24 >>, << 3 * 60, 27 * 60 >> }
MoonMaxBrightness == { 5, 100 }
MoonTimes == 0..(SynodicMinutes \div 30 + 1)

MoonIdle == moon = None /\ moon_out = None

\* moon = MoonCurve(max_brightness, dark_start_hour, dark_end_hour)
MoonConstruct ==
    \E mb \in MoonMaxBrightness, w \in MoonWindows :
        /\ moon = None
        /\ moon' = Some([ max_brightness |-> mb, dark_start_hour |-> w[1],
                          dark_end_hour |-> w[2] ])
        /\ moon_out' = None

\* moon.get_state(now); get_state changes no field, one call per behaviour
\* reaches every result
MoonGetState ==
    \E now \in MoonTimes :
        /\ moon # None
        /\ moon_out = None
        /\ moon_out' = Some([ now |-> now, res |-> get_state(Val(moon), now) ])
        /\ UNCHANGED moon

----------------------------------------------------------------------------
\* config_loader.py
\* A JSON value is a record tagged with its Python type: a number (a float,
\* counted in 1/2^FracBits), a string, a boolean or a dict (a function from
\* its keys to values).  Dates are counted in days.

Num(n) == [ t |-> "num", v |-> n ]
Str(s) == [ t |-> "str", v |-> s ]
Bool(b) == [ t |-> "bool", v |-> b ]
Dict(f) == [ t |-> "dict", v |-> f ]
EmptyDict == << >>

\* Python's float: binary floating point rounding every result to the nearest
\* representable value, ties to even.  The model keeps MantBits significant
\* bits (53 in Python) and a smallest quantum of 2^-FracBits.
MantBits == 2 + 2
FracBits == 2 * 3

RECURSIVE Pow2(_)
Pow2(j) == IF j = 0 THEN 1 ELSE 2 * Pow2(j - 1)

FlOne == Pow2(FracBits)

\* the position of the leading bit of x > 0
RECURSIVE TopBit(_)
TopBit(x) == IF x <= 1 THEN 0 ELSE 1 + TopBit(x \div 2)

\* the spacing of the representable values around x >= 0
Quantum(x) == IF x < Pow2(MantBits) THEN 1 ELSE Pow2(TopBit(x) - MantBits + 1)

\* x >= 0 rounded to the nearest multiple of q, ties to the even multiple
RoundHalfEven(x, q) ==
    LET f == x \div q
        r == x % q
    IN IF 2 * r < q THEN f * q
       ELSE IF 2 * r > q THEN (f + 1) * q
       ELSE IF f % 2 = 0 THEN f * q ELSE (f + 1) * q

\* the float nearest to x
Fl(x) == IF x < 0 THEN 0 - RoundHalfEven(0 - x, Quantum(0 - x))
                  ELSE RoundHalfEven(x, Quantum(x))

\* a + b, a - b, a * b on floats
FlAdd(a, b) == Fl(a + b)
FlSub(a, b) == Fl(a - b)
FlMul(a, b) ==
    LET x == Abs(a * b)
        q == Max(FlOne, Quantum(x))
        r == RoundHalfEven(x, q) \div FlOne
    IN IF (a < 0) # (b < 0) THEN 0 - r ELSE r

\* n / d on integers n >= 0, d > 0 (true division, a float)
FlDiv(n, d) ==
    LET x == n * FlOne
        q == Quantum(x \div d)
    IN RoundHalfEven(x, d * q) \div d

\* _is_number(x): int or float, not bool
_is_number(x) == x.t = "num"

RECURSIVE _interp_values(_, _, _)
RECURSIVE _interp_dict(_, _, _)

\* _interp_values(a, b, alpha) with the midpoint tie going to the earlier side
InterpValuesTieEarlier(a, b, alpha) ==
    IF _is_number(a) /\ _is_number(b)
    THEN Num(FlAdd(a.v, FlMul(FlSub(b.v, a.v), alpha)))
    ELSE IF a.t = "dict" /\ b.t = "dict"
    THEN Dict(_interp_dict(a.v, b.v, alpha))
    ELSE IF 2 * alpha <= FlOne THEN a ELSE b

\* _interp_values(a, b, alpha)
_interp_values(a, b, alpha) ==
    IF _is_number(a) /\ _is_number(b)
    THEN Num(FlAdd(a.v, FlMul(FlSub(b.v, a.v), alpha)))
    ELSE IF a.t = "dict" /\ b.t = "dict"
    THEN Dict(_interp_dict(a.v, b.v, alpha))
    ELSE IF 2 * alpha < FlOne THEN a ELSE b

\* _interp_dict(a, b, alpha) leaving out the keys that only b has
InterpDictKeysOfEarlier(a, b, alpha) ==
    [ key \in DOMAIN a |->
        IF key \in DOMAIN b
        THEN _interp_values(a[key], b[key], alpha)
        ELSE a[key] ]

\* _interp_dict(a, b, alpha)
_interp_dict(a, b, alpha) ==
    [ key \in DOMAIN a \cup DOMAIN b |->
        IF key \in DOMAIN a /\ key \in DOMAIN b
        THEN _interp_values(a[key], b[key], alpha)
        ELSE IF key \in DOMAIN a THEN a[key] ELSE b[key] ]

\* _merge_dict_shallow_inherit(old, new) as dict.update: new wins key by key
\* at the top level, nested mappings are replaced whole
MergeTopLevel(old, new) ==
    [ k \in DOMAIN old \cup DOMAIN new |->
        IF k \in DOMAIN new THEN new[k] ELSE old[k] ]

\* _merge_dict_shallow_inherit(old, new)
RECURSIVE _merge_dict_shallow_inherit(_, _)
_merge_dict_shallow_inherit(old, new) ==
    [ k \in DOMAIN old \cup DOMAIN new |->
        IF k \in DOMAIN new
        THEN IF k \in DOMAIN old /\ old[k].t = "dict" /\ new[k].t = "dict"
             THEN Dict(_merge_dict_shallow_inherit(old[k].v, new[k].v))
             ELSE new[k]
        ELSE old[k] ]

\* json.loads(json.dumps(cfg)): a deep copy; str keys, floats, strings,
\* booleans and dicts come back as they went in
JsonCopy(cfg) == cfg

\* dict.get(key, {})
Get(d, key) == IF key \in DOMAIN d THEN d[key] ELSE Dict(EmptyDict)

\* raw_versions.sort(key=lambda x: x[0]): stable, equal dates keep file order
RECURSIVE SortByDate(_)
SortByDate(s) ==
    IF s = << >> THEN << >>
    ELSE LET front == SortByDate(SubSeq(s, 1, Len(s) - 1))
             e == s[Len(s)]
             k == Cardinality({ i \in 1..Len(front) : front[i].date <= e.date })
         IN SubSeq(front, 1, k) \o << e >> \o SubSeq(front, k + 1, Len(front))

\* running_cfg after the first k versions (lines 124-127)
RECURSIVE RunningCfg(_, _)
RunningCfg(raw, k) ==
    IF k = 0 THEN EmptyDict
    ELSE _merge_dict_shallow_inherit(RunningCfg(raw, k - 1), raw[k].cfg)

\* lines 111-120: raw_versions parsed and sorted
RawVersions(versions) ==
    SortByDate([ i \in 1..Len(versions) |->
                   [ date |-> Val(versions[i].date), cfg |-> versions[i].cfg ] ])

\* lines 111-129: raw_versions parsed and sorted, then the cumulative snapshots
InheritedVersions(versions) ==
    LET raw == RawVersions(versions)
    IN [ k \in 1..Len(raw) |->
           [ date |-> raw[k].date, cfg |-> JsonCopy(RunningCfg(raw, k)) ] ]

\* lines 131-150 without the interpolation: between two dates the earlier
\* snapshot is kept
SelectCfgStep(inherited, now_date) ==
    LET n == Len(inherited)
        before == { i \in 1..n : inherited[i].date <= now_date }
    IN IF now_date <= inherited[1].date THEN inherited[1].cfg
       ELSE IF now_date >= inherited[n].date THEN inherited[n].cfg
       ELSE inherited[CHOOSE j \in before : \A h \in before : h <= j].cfg

\* lines 131-150: the snapshot chosen for now_date
SelectCfg(inherited, now_date) ==
    LET n == Len(inherited)
        hits == { i \in 1..(n - 1) :
                    inherited[i].date <= now_date /\ now_date <= inherited[i + 1].date }
    IN IF now_date <= inherited[1].date THEN inherited[1].cfg
       ELSE IF now_date >= inherited[n].date THEN inherited[n].cfg
       ELSE IF hits = {} THEN inherited[n].cfg
       ELSE LET i == CHOOSE j \in hits : \A h \in hits : j <= h
                d0 == inherited[i].date
                d1 == inherited[i + 1].date
                c0 == inherited[i].cfg
                c1 == inherited[i + 1].cfg
                total_days == d1 - d0
                alpha == IF total_days <= 0 THEN 0 ELSE FlDiv(now_date - d0, total_days)
            IN IF d0 = d1 THEN c0 ELSE _interp_dict(c0, c1, alpha)

NoCfg == [ exc |-> "ValueError" ]

\* data.get("versions", [])
FileVersions(data) == IF "versions" \in DOMAIN data THEN data["versions"] ELSE << >>

\* load_runtime_config skipping the entries without a date instead of raising
LoadSkippingDateless(data, now_date) ==
    LET constants == Get(data, "constants").v
        versions == SelectSeq(FileVersions(data), LAMBDA e : e.date # None)
    IN IF versions = << >> THEN NoCfg
       ELSE LET cfg == SelectCfg(InheritedVersions(versions), now_date)
            IN [ exc |-> "",
                 sun_cfg |-> Get(cfg, "sun"),
                 moon_cfg |-> Get(cfg, "moon"),
                 tuya_cfg |-> Get(constants, "tuya"),
                 global_cfg |-> Get(constants, "global") ]

\* load_runtime_config(path, now) on the parsed file data
load_runtime_config(data, now_date) ==
    LET constants == Get(data, "constants").v
        versions == FileVersions(data)
    IN IF versions = << >> THEN NoCfg
       ELSE IF \E i \in 1..Len(versions) : versions[i].date = None THEN NoCfg
       ELSE LET cfg == SelectCfg(InheritedVersions(versions), now_date)
            IN [ exc |-> "",
                 sun_cfg |-> Get(cfg, "sun"),
                 moon_cfg |-> Get(cfg, "moon"),
                 tuya_cfg |-> Get(constants, "tuya"),
                 global_cfg |-> Get(constants, "global") ]

\* the file: constants and the versions written so far
MaxVersions == 3
MaxDate == 3

\* the partial configurations a version may carry
Partials ==
    { [ sun |-> Dict([ B_peak_max |-> Num(FlOne), mode |-> Str("a") ]) ],
      [ sun |-> Dict([ B_peak_max |-> Num(15) ]) ],
      [ sun |-> Dict([ mode |-> Str("b") ]), moon |-> Dict([ enabled |-> Bool(TRUE) ]) ],
      [ sun |-> Str("off") ] }

\* an entry without a "date" field carries this
Dateless == [ date |-> None, cfg |-> [ sun |-> Dict([ mode |-> Str("a") ]) ] ]

\* the two versions 2024-01-01 {brightness 0.2} and 2024-02-01 {brightness 0.8},
\* dates counted from 2024-01-01 = 1; a JSON literal is the float nearest to it
ScenarioStart == 1
ScenarioEnd == ScenarioStart + 31
ScenarioNow == ScenarioStart + 15
ScenarioVersions ==
    << [ date |-> Some(ScenarioStart),
         cfg |-> [ sun |-> Dict([ brightness |-> Num(FlDiv(2, 10)) ]) ] ],
       [ date |-> Some(ScenarioEnd),
         cfg |-> [ sun |-> Dict([ brightness |-> Num(FlDiv(8, 10)) ]) ] ] >>

Entries == { [ date |-> Some(d), cfg |-> p ] : d \in 1..MaxDate, p \in Partials }
           \cup { Dateless }

NowDates == 0..(MaxDate + 1) \cup { ScenarioNow }

FileConstants == Dict([ tuya |-> Dict([ device_id |-> Str("x") ]) ])

ConfigIdle ==
    /\ config_file = [ constants |-> FileConstants, versions |-> << >> ]
    /\ resolved = None

\* one more entry in the file's "versions" list
AddVersion ==
    \E e \in Entries :
        /\ resolved = None
        /\ "versions" \in DOMAIN config_file
        /\ Len(config_file["versions"]) < MaxVersions
        /\ config_file' = [ config_file EXCEPT !["versions"] = Append(@, e) ]
        /\ UNCHANGED resolved

\* the file written with the scenario's two versions
WriteScenario ==
    /\ resolved = None
    /\ "versions" \in DOMAIN config_file
    /\ config_file["versions"] = << >>
    /\ config_file' = [ config_file EXCEPT !["versions"] = ScenarioVersions ]
    /\ UNCHANGED resolved

\* the file written without a "versions" key
OmitVersions ==
    /\ resolved = None
    /\ "versions" \in DOMAIN config_file
    /\ config_file["versions"] = << >>
    /\ config_file' = [ constants |-> config_file["constants"] ]
    /\ UNCHANGED resolved

\* load_runtime_config(path, now); the file is only read, one call per
\* behaviour reaches every result
Resolve ==
    \E now_date \in NowDates :
        /\ resolved = None
        /\ resolved' = Some([ now_date |-> now_date,
                              res |-> load_runtime_config(config_file, now_date) ])
        /\ UNCHANGED config_file

----------------------------------------------------------------------------
\* rgbw_tuning.py, linear_to_pwm
\* x is counted in 1/XScale, the table values in 1/LutScale, x ** gamma in
\* 1/YScale; gamma is None or a fraction << numerator, denominator >>.

XScale == 2 * 2
LutScale == 1 + 1
YScale == 100 * 100

\* the integer square root
ISqrt(v) == CHOOSE r \in 0..YScale : r * r <= v /\ v < (r + 1) * (r + 1)

SeqMax(s) == CHOOSE v \in { s[i] : i \in 1..Len(s) } : \A i \in 1..Len(s) : s[i] <= v

\* _lut_interpolate(x, lut), over XScale * LutScale; x is clamped already
_lut_interpolate(x, lut) ==
    IF lut = << >> THEN x * LutScale
    ELSE IF Len(lut) = 1 THEN lut[1] * XScale
    ELSE LET pos == clamp(x, 0, XScale) * (Len(lut) - 1)
             i == pos \div XScale
             frac == pos - i * XScale
             j == Min(i + 1, Len(lut) - 1)
         IN lut[i + 1] * XScale + (lut[j + 1] - lut[i + 1]) * frac

\* x ** gamma for 0 <= x <= 1, in 1/YScale
Power(x, gamma) ==
    LET p == IF gamma[1] = 1 THEN x * XScale ELSE x * x
    IN IF gamma[2] = 1 THEN (p * YScale) \div (XScale * XScale)
       ELSE ISqrt((p * YScale * YScale) \div (XScale * XScale))

\* int(round(v)) for v = num / den >= 0: Python rounds halves to even
IntRound(num, den) == RoundHalfEven(num, den) \div den

\* linear_to_pwm without the final clamp of the table branch
LinearToPwmNoClamp(x0, lut, gamma0, pwm_max) ==
    LET x == clamp(x0, 0, XScale)
        den == XScale * LutScale
        y0 == _lut_interpolate(x, Val(lut))
        y == IF SeqMax(Val(lut)) <= LutScale THEN y0 * pwm_max ELSE y0
        gamma == IF gamma0 = None THEN << 1, 1 >> ELSE Val(gamma0)
    IN IF lut # None
       THEN IF Val(lut) = << >> THEN [ exc |-> "ValueError" ]
            ELSE [ exc |-> "",
                   value |-> IF y < 0 THEN 0 - IntRound(0 - y, den) ELSE IntRound(y, den) ]
       ELSE [ exc |-> "",
              value |-> IntRound(clamp(Power(x, gamma), 0, YScale) * pwm_max, YScale) ]

\* linear_to_pwm(x, lut=..., gamma=..., pwm_max=...); max(lut) raises ValueError
\* on an empty table
linear_to_pwm(x0, lut, gamma0, pwm_max) ==
    LET x == clamp(x0, 0, XScale)
        den == XScale * LutScale
        y0 == _lut_interpolate(x, Val(lut))
        y == IF SeqMax(Val(lut)) <= LutScale THEN y0 * pwm_max ELSE y0
        gamma == IF gamma0 = None THEN << 1, 1 >> ELSE Val(gamma0)
    IN IF lut # None
       THEN IF Val(lut) = << >> THEN [ exc |-> "ValueError" ]
            ELSE [ exc |-> "", value |-> IntRound(clamp(y, 0, pwm_max * den), den) ]
       ELSE [ exc |-> "",
              value |-> IntRound(clamp(Power(x, gamma), 0, YScale) * pwm_max, YScale) ]

\* the arguments tried: x inside and outside [0, 1]; no table, an empty one, a
\* single value, tables in normalized and in device units, with values below 0
\* and above pwm_max
PwmX == (0 - 1)..(XScale + 1)
PwmLut ==
    { None, Some(<< >>), Some(<< 1 >>), Some(<< 0, 1, 2 >>), Some(<< 0, 600, 2000 >>),
      Some(<< 0 - 100, 2400 >>), Some(<< 0 - 1, 3 >>), Some(<< 0 - 4, 1 >>) }
PwmGamma == { None, Some(<< 1, 2 >>), Some(<< 1, 1 >>), Some(<< 2, 1 >>) }
PwmMax == { 255, 1000 }

\* pwm = linear_to_pwm(...); the function is pure, one call per behaviour
\* reaches every result
LinearToPwm ==
    \E x \in PwmX, lut \in PwmLut, gamma \in PwmGamma, pwm_max \in PwmMax :
        /\ rgbw = None
        /\ pwm = None
        /\ pwm' = Some([ x |-> x, lut |-> lut, gamma |-> gamma, pwm_max |-> pwm_max,
                         res |-> linear_to_pwm(x, lut, gamma, pwm_max) ])
        /\ UNCHANGED rgbw

----------------------------------------------------------------------------
\* aquarium_light_daemon.py: one tick of the control loop of main, for the
\* Tuya lamp.  Device brightness is an integer 0..brightness_dev_max; the
\* moon's brightness is counted in 1/MoonUnit, the cloud factor and the RGBW
\* base fraction in 1/FactorUnit.  Of the RGBW lamp the tick model keeps
\* rgb_base_frac, which enters the base brightness passed to the clouds.

MoonUnit == 10 * 100
FactorUnit == 10 * 10
\* brightness_dev_max = int(bridgelux_cfg.get("tuya_brightness_scale_max", 1000))
brightness_dev_max == 1000
\* moon_cct_dev = kelvin_to_cct_dev(moon_cct_k, ...), fixed at start-up
moon_cct_dev == 820

\* what the tick reads: curve.sample(t_hours, raw=False), moon.get_state(),
\* rgb_base_frac and clouds.get_multiplier(now_ts, cloud_base)
TickSunB == { 0, 1, 400, 1000 }
TickSunC == { 0, 500 }
TickMoonBrightness == { 0, 1, 50, 400 }
TickRgbBase == { 0, 50 }
TickFactor == { 0, 50, 99, 100, 104 }

\* the tick with the dominant source chosen by a strict comparison
TickTieToMoon(run_bridgelux, dev, B_sun, C_sun, sun_is_on, moon_state, rgb_base_frac, cloud_factor) ==
    LET B_sun_raw_dev == IF run_bridgelux /\ sun_is_on THEN B_sun ELSE 0
        B_moon_raw_dev == IF run_bridgelux /\ moon_state.on
                          THEN IntRound(moon_state.brightness * brightness_dev_max,
                                        MoonUnit)
                          ELSE 0
        C_sun_dev == IF run_bridgelux THEN C_sun ELSE 0
        sun_on == run_bridgelux /\ sun_is_on
        dominant_source == IF B_sun_raw_dev > B_moon_raw_dev /\ sun_on
                           THEN "sun" ELSE "moon"
        base_dev == Max(B_sun_raw_dev, B_moon_raw_dev)
        base_frac == Max(0, Min(brightness_dev_max, base_dev))
        final_frac == Max(0, Min(brightness_dev_max * FactorUnit,
                                 base_frac * cloud_factor))
        B_combined == IntRound(final_frac, FactorUnit)
        on_combined == B_combined > 0
        C_dev == IF ~on_combined THEN C_sun_dev
                 ELSE IF dominant_source = "sun" THEN C_sun_dev
                 ELSE moon_cct_dev
    IN [ B_sun_raw_dev |-> B_sun_raw_dev, B_moon_raw_dev |-> B_moon_raw_dev,
         C_sun_dev |-> C_sun_dev, sun_on |-> sun_on,
         dominant_source |-> dominant_source,
         cloud_base |-> Max(base_frac * FactorUnit, rgb_base_frac * brightness_dev_max),
         cloud_factor |-> cloud_factor,
         B_combined |-> B_combined, on_combined |-> on_combined, C_dev |-> C_dev,
         sent |-> IF run_bridgelux /\ dev
                  THEN IF on_combined
                       THEN Some([ power |-> TRUE, mode |-> "white",
                                   bright |-> B_combined, cct |-> C_dev ])
                       ELSE Some([ power |-> FALSE ])
                  ELSE None ]

\* lines 530-628 of main: the unclouded sun and moon brightness in device
\* units, the dominant source, the clouded combined brightness, the colour
\* temperature and the values set on the lamp.  dev is whether the lamp is
\* initialised; base_frac is kept in 1/brightness_dev_max, final_frac in
\* 1/(brightness_dev_max * FactorUnit).
TickCombine(run_bridgelux, dev, B_sun, C_sun, sun_is_on, moon_state, rgb_base_frac, cloud_factor) ==
    LET B_sun_raw_dev == IF run_bridgelux /\ sun_is_on THEN B_sun ELSE 0
        B_moon_raw_dev == IF run_bridgelux /\ moon_state.on
                          THEN IntRound(moon_state.brightness * brightness_dev_max,
                                        MoonUnit)
                          ELSE 0
        C_sun_dev == IF run_bridgelux THEN C_sun ELSE 0
        sun_on == run_bridgelux /\ sun_is_on
        dominant_source == IF B_sun_raw_dev >= B_moon_raw_dev /\ sun_on
                           THEN "sun" ELSE "moon"
        base_dev == Max(B_sun_raw_dev, B_moon_raw_dev)
        base_frac == Max(0, Min(brightness_dev_max, base_dev))
        final_frac == Max(0, Min(brightness_dev_max * FactorUnit,
                                 base_frac * cloud_factor))
        B_combined == IntRound(final_frac, FactorUnit)
        on_combined == B_combined > 0
        C_dev == IF ~on_combined THEN C_sun_dev
                 ELSE IF dominant_source = "sun" THEN C_sun_dev
                 ELSE moon_cct_dev
    IN [ B_sun_raw_dev |-> B_sun_raw_dev, B_moon_raw_dev |-> B_moon_raw_dev,
         C_sun_dev |-> C_sun_dev, sun_on |-> sun_on,
         dominant_source |-> dominant_source,
         cloud_base |-> Max(base_frac * FactorUnit, rgb_base_frac * brightness_dev_max),
         cloud_factor |-> cloud_factor,
         B_combined |-> B_combined, on_combined |-> on_combined, C_dev |-> C_dev,
         sent |-> IF run_bridgelux /\ dev
                  THEN IF on_combined
                       THEN Some([ power |-> TRUE, mode |-> "white",
                                   bright |-> B_combined, cct |-> C_dev ])
                       ELSE Some([ power |-> FALSE ])
                  ELSE None ]

DaemonIdle == tick = None

\* one pass of the loop body; get_multiplier returns 1.0 when cloud_base <= 0
\* (clouds.py:251-252).  A tick depends on no earlier tick: one tick per
\* behaviour reaches every result.
Tick ==
    \E run_bridgelux \in BOOLEAN, dev \in BOOLEAN, B_sun \in TickSunB,
       C_sun \in TickSunC, sun_is_on \in BOOLEAN, moon_is_on \in BOOLEAN,
       moon_brightness \in TickMoonBrightness, rgb_base_frac \in TickRgbBase,
       cloud_factor \in TickFactor :
        LET t == TickCombine(run_bridgelux, dev, B_sun, C_sun, sun_is_on,
                             [ on |-> moon_is_on, brightness |-> moon_brightness ],
                             rgb_base_frac, cloud_factor)
        IN /\ tick = None
           /\ (sun_is_on \/ B_sun = 0)
           /\ (moon_is_on \/ moon_brightness = 0)
           /\ (t.cloud_base <= 0) => (cloud_factor = FactorUnit)
           /\ tick' = Some(t)

\* The daemon calls get_multiplier from its single control loop: the calls
\* of Spec are made by one caller, one after the other.
MainLoop == "main"

CloudIdle == CloudInit

Init == CloudInit /\ SunIdle /\ GamutIdle /\ MoonIdle /\ ConfigIdle /\ DaemonIdle

CallStep == \E now \in 0..MaxTs, base \in BaseValues : Call(MainLoop, now, base)
EnsureDayStateStep == \E rnd \in 0..(RandRes - 1) : EnsureDayState(MainLoop, rnd)
ReadDtStep == ReadDt(MainLoop)
WriteLastTsStep == WriteLastTs(MainLoop)
CheckOffStep == CheckOff(MainLoop)
StepCloudDropStep == \E n \in GaussValues, u \in BurstRand : StepCloudDrop(MainLoop, n, u)
StepShimmerStep == \E n \in GaussValues : StepShimmer(MainLoop, n)
CombineStep == Combine(MainLoop)
ReturnStep == Return(MainLoop)

\* what a step of one component leaves alone
CloudFrame == UNCHANGED << sun_vars, gamut_vars, moon_vars, config_vars, daemon_vars >>
SunFrame == UNCHANGED << cloud_vars, gamut_vars, moon_vars, config_vars, daemon_vars >>
GamutFrame == UNCHANGED << cloud_vars, sun_vars, moon_vars, config_vars, daemon_vars >>
MoonFrame == UNCHANGED << cloud_vars, sun_vars, gamut_vars, config_vars, daemon_vars >>
ConfigFrame == UNCHANGED << cloud_vars, sun_vars, gamut_vars, moon_vars, daemon_vars >>
DaemonFrame == UNCHANGED << cloud_vars, sun_vars, gamut_vars, moon_vars, config_vars >>

Next ==
    \/ CallStep /\ CloudFrame
    \/ EnsureDayStateStep /\ CloudFrame
    \/ ReadDtStep /\ CloudFrame
    \/ WriteLastTsStep /\ CloudFrame
    \/ CheckOffStep /\ CloudFrame
    \/ StepCloudDropStep /\ CloudFrame
    \/ StepShimmerStep /\ CloudFrame
    \/ CombineStep /\ CloudFrame
    \/ ReturnStep /\ CloudFrame

Spec == Init /\ [][Next]_vars

\* Two threads calling get_multiplier on one instance with no lock around the
\* call: the steps of the two activations interleave freely.  The calls fall
\* on the first calendar day; a call is made at the time of the call in
\* progress or later, and later than the last call that has returned.
InitRace == Init

RaceNow(c) ==
    { t \in 0..(SecPerDay - 1) :
        /\ \A o \in Callers : pc[o] # "idle" => now_ts[o] <= t
        /\ (InProgress(c) = {} /\ last_ts # None) => Val(last_ts) < t }

\* the rng of these behaviours draws the first day type and delivers the noise
\* values 0 and 3.0; the callers pass a base brightness of 0 or 1.0
RacePick == {0}
RaceGauss == {0, 30}
RaceBurstRand == {0}
RaceBase == {0, 10}

CallRace == \E c \in Callers, base \in RaceBase : \E now \in RaceNow(c) : Call(c, now, base)
EnsureDayStateRace == \E c \in Callers, rnd \in RacePick : EnsureDayState(c, rnd)
ReadDtRace == \E c \in Callers : ReadDt(c)
WriteLastTsRace == \E c \in Callers : WriteLastTs(c)
CheckOffRace == \E c \in Callers : CheckOff(c)
StepCloudDropRace == \E c \in Callers, n \in RaceGauss, u \in RaceBurstRand : StepCloudDrop(c, n, u)
StepShimmerRace == \E c \in Callers, n \in RaceGauss : StepShimmer(c, n)
CombineRace == \E c \in Callers : Combine(c)
ReturnRace == \E c \in Callers : Return(c)

NextRace ==
    \/ CallRace /\ CloudFrame
    \/ EnsureDayStateRace /\ CloudFrame
    \/ ReadDtRace /\ CloudFrame
    \/ WriteLastTsRace /\ CloudFrame
    \/ CheckOffRace /\ CloudFrame
    \/ StepCloudDropRace /\ CloudFrame
    \/ StepShimmerRace /\ CloudFrame
    \/ CombineRace /\ CloudFrame
    \/ ReturnRace /\ CloudFrame

SpecRace == InitRace /\ [][NextRace]_vars

\* SunCurve: any curve of the parameter sets, sampled at any time
InitSun == Init

NextSun ==
    \/ SunConstruct /\ SunFrame
    \/ SunSample /\ SunFrame

SpecSun == InitSun /\ [][NextSun]_vars

\* map_rgbw_linear: any arguments of the sets above
InitGamut == Init

NextGamut ==
    \/ MapRgbw /\ GamutFrame
    \/ LinearToPwm /\ GamutFrame

SpecGamut == InitGamut /\ [][NextGamut]_vars

\* MoonCurve: any curve of the parameter sets, asked at any time of one lunation
InitMoon == Init

NextMoon ==
    \/ MoonConstruct /\ MoonFrame
    \/ MoonGetState /\ MoonFrame

SpecMoon == InitMoon /\ [][NextMoon]_vars

\* The resolver: any file of up to MaxVersions entries, resolved at any date
InitConfig == Init

NextConfig ==
    \/ AddVersion /\ ConfigFrame
    \/ WriteScenario /\ ConfigFrame
    \/ OmitVersions /\ ConfigFrame
    \/ Resolve /\ ConfigFrame

SpecConfig == InitConfig /\ [][NextConfig]_vars

\* The control loop: ticks with any values read from the curves and the clouds
InitDaemon == Init

NextDaemon ==
    \/ Tick /\ DaemonFrame

SpecDaemon == InitDaemon /\ [][NextDaemon]_vars

----------------------------------------------------------------------------
\* Properties of CloudDeltaWithShimmer, checked under Spec

\* the activation of c has returned: ret[c] holds the value get_multiplier gave
Returned(c) == pc[c] = "done"
\* the day type in force
Cfg == DayTypes[Val(current_day_type)]
\* the call of c falls on the calendar day the instance was on when it began
SameDay(c) == entry[c].current_day_key = Some(_day_key_from_ts(now_ts[c]))
\* drop and shimmer_state as _ensure_day_state leaves them in the call of c
DropAfterEnsure(c) == IF SameDay(c) THEN entry[c].drop ELSE Cfg.center_drop
ShimmerAfterEnsure(c) == IF SameDay(c) THEN entry[c].shimmer_state ELSE 0

\* C1: every factor returned by get_multiplier, on on-ticks and on off-ticks,
\* lies in [0, 1 + shimmer_amp * shimmer_boost] of the day type in force.
C1_FactorInRange ==
    \A c \in Callers :
        Returned(c) =>
            /\ ret[c] # None
            /\ current_day_type # None
            /\ 0 <= Val(ret[c])
            /\ Val(ret[c]) * AmpScale
                  <= FactorScale * (AmpScale + Params.shimmer_amp * Cfg.shimmer_boost)

\* C1 witness: an on-tick that stepped both processes returns a factor above 1.0,
\* and it is the largest value the day type allows.
C1_Witness ==
    \E c \in Callers :
        /\ Returned(c)
        /\ base_brightness[c] > 0
        /\ draws[c].gauss = 2
        /\ Val(ret[c]) > One
        /\ Val(ret[c]) = MaxFactor(Cfg)

\* C2: on the first call and on every later call whose timestamp falls on another
\* local calendar day than current_day_key, _ensure_day_state draws a day type,
\* sets current_day_key to the new day, drop to the day type's center_drop and
\* shimmer_state to 0.
C2_DayChangeResets ==
    \A c \in Callers :
        (pc[c] = "read_dt" /\ ~SameDay(c)) =>
            /\ draws[c].pick = 1
            /\ current_day_key = Some(_day_key_from_ts(now_ts[c]))
            /\ current_day_type # None
            /\ Val(current_day_type) \in 1..Len(DayTypes)
            /\ drop = DayTypes[Val(current_day_type)].center_drop
            /\ shimmer_state = 0

\* C2 witness: a later call on another day, made with drop away from the new
\* centre and a shimmer state away from 0, has just run _ensure_day_state.
C2_Witness ==
    \E c \in Callers :
        /\ pc[c] = "read_dt"
        /\ entry[c].current_day_key # None
        /\ ~SameDay(c)
        /\ entry[c].shimmer_state # 0
        /\ entry[c].drop # drop
        /\ entry[c].current_day_type # current_day_type

\* C3 as stated: an off tick returns 1.0, leaves drop and shimmer_state as they
\* were before the call and sets last_ts to now_ts.
C3_OffTickLeavesState ==
    \A c \in Callers :
        (Returned(c) /\ base_brightness[c] <= 0) =>
            /\ ret[c] = Some(One)
            /\ drop = entry[c].drop
            /\ shimmer_state = entry[c].shimmer_state
            /\ last_ts = Some(now_ts[c])

\* C3 amended: an off tick returns 1.0, makes no OU step and no noise draw and
\* sets last_ts to now_ts; drop and shimmer_state are as before the call when the
\* call falls on the day of current_day_key, and are the new day type's
\* center_drop and 0 on the first call and on a day change.  The dt of every call
\* is measured from the previous call's timestamp, off tick or not.
C3_OffTickAmended ==
    \A c \in Callers :
        /\ (Returned(c) /\ base_brightness[c] <= 0) =>
              /\ ret[c] = Some(One)
              /\ last_ts = Some(now_ts[c])
              /\ step_dt[c] = << >>
              /\ draws[c].gauss = 0 /\ draws[c].burst = 0
              /\ SameDay(c) =>
                    /\ drop = entry[c].drop
                    /\ shimmer_state = entry[c].shimmer_state
                    /\ current_day_type = entry[c].current_day_type
              /\ ~SameDay(c) =>
                    /\ drop = Cfg.center_drop
                    /\ shimmer_state = 0
        /\ (pc[c] \in {"write_ts", "check_off", "step_drop", "step_shimmer",
                        "combine", "done"} /\ entry[c].last_ts # None) =>
              dt[c] = now_ts[c] - Val(entry[c].last_ts)

\* C3 witness: an off tick on a new day has returned, and the reset changed both
\* drop and shimmer_state.
C3_Witness ==
    \E c \in Callers :
        /\ Returned(c)
        /\ base_brightness[c] <= 0
        /\ entry[c].current_day_key # None
        /\ ~SameDay(c)
        /\ drop # entry[c].drop
        /\ shimmer_state # entry[c].shimmer_state

\* C4: the time step used by _step_cloud_drop and _step_shimmer is within
\* [0, max_dt_sec] whatever the gap between the calls; a timestamp equal to or
\* earlier than last_ts gives dt = 0, no step and no noise or burst draw.
C4_DtClamped ==
    \A c \in Callers :
        /\ \A i \in DOMAIN step_dt[c] :
              /\ 0 <= step_dt[c][i]
              /\ step_dt[c][i] <= Params.max_dt_sec
        /\ (pc[c] \in {"combine", "done"} /\ base_brightness[c] > 0) =>
              /\ Len(step_dt[c]) = 2
              /\ (step_dt[c][1] > 0) => (draws[c].gauss = 2)
              /\ (entry[c].last_ts # None /\ now_ts[c] <= Val(entry[c].last_ts)) =>
                    /\ step_dt[c] = << 0, 0 >>
                    /\ draws[c].gauss = 0 /\ draws[c].burst = 0
                    /\ drop = DropAfterEnsure(c)
                    /\ shimmer_state = ShimmerAfterEnsure(c)

\* C4 witness: an on-tick that comes more than max_dt_sec after the previous
\* call has stepped both processes with dt = max_dt_sec.
C4_Witness ==
    \E c \in Callers :
        /\ Returned(c)
        /\ base_brightness[c] > 0
        /\ dt[c] > Params.max_dt_sec
        /\ step_dt[c] = << Params.max_dt_sec, Params.max_dt_sec >>
        /\ draws[c].gauss = 2

----------------------------------------------------------------------------
\* Properties of SunCurve, checked under SpecSun

\* the curve, the sample call and its result, once sample has been called
Curve == Val(sun)
Sampled == sun # None /\ sun_out # None
SunRes == Val(sun_out).res
SunOffset == _local_offset_and_phase(Curve, Val(sun_out).t_hours).offset
\* the curve of the scenario: t_start=6, t_end=20, H_eq=10, B_peak_max=1.0
IsScenarioCurve ==
    /\ Curve.t_start = 6 * 60 /\ Curve.t_end = 20 * 60
    /\ Curve.H_eq = 10 * 60 /\ Curve.B_peak_max = BScale

\* C5: sample(t_start) and sample((t_start + D) mod 24) return brightness 0, in
\* raw and in quantized mode, for every curve.
C5_ZeroAtEdges ==
    Sampled =>
        ((SunOffset = 0 \/ SunOffset = Curve.D) =>
            (SunRes.B = 0 /\ SunRes.exc = ""))

\* C5 witness: a curve with H_eq > 0 and a window shorter than the day has been
\* sampled in quantized mode at t_start + D, and one in raw mode.
C5_Witness ==
    /\ Sampled
    /\ Curve.a_unclipped > 0
    /\ Curve.D < DayMin
    /\ SunOffset = Curve.D
    /\ ~Val(sun_out).raw
    /\ SunRes.B = 0

\* C6 as stated: the raw brightness at t_start + D/2 is the maximum over the
\* window and equals B_peak_eff = min(2 H_eq / D, B_peak_max).
C6_MidpointIsPeakEff ==
    (Sampled /\ Val(sun_out).raw /\ 2 * SunOffset = Curve.D) =>
        /\ SunRes.B = Curve.B_peak_eff
        /\ \A t \in SampleTimes : _brightness_float(Curve, t) <= SunRes.B

----------------------------------------------------------------------------
\* Properties of map_rgbw_linear, checked under SpecGamut

Mapped == rgbw # None
GamutIn == Val(rgbw)
GamutRes == Val(rgbw).res
\* the clamped intensity, in 1/IScale
GamutIntensity == clamp(GamutIn.I, 0, IScale)
GamutRaw == RawChannels(GamutIn.I, GamutIn.w, GamutIn.s, GamutIn.t)

\* C8: with preserve_total and I > 1e-6 the four channels sum to I (I clamped to
\* [0,1]), each channel within [0,1]; no clamp before or after the rescale makes
\* the sum differ.
C8_PreserveTotal ==
    (Mapped /\ GamutIn.preserve_total /\ GamutIntensity > IScale \div 1000000) =>
        /\ (GamutRes.R + GamutRes.G + GamutRes.B + GamutRes.W) * IScale
              = GamutIntensity * GamutRes.den
        /\ \A ch \in { GamutRes.R, GamutRes.G, GamutRes.B, GamutRes.W } :
              0 <= ch /\ ch <= GamutRes.den

\* C8 witness: a call with preserve_total whose green channel was clamped up to 0
\* before the rescale, and whose channels summed to something else than I there.
C8_Witness ==
    /\ Mapped
    /\ GamutIn.preserve_total
    /\ GamutIntensity > 0
    /\ GamutRaw.G < 0
    /\ GamutRes.G = 0
    /\ GamutRes.den # ChDen * GamutIntensity

----------------------------------------------------------------------------
\* Properties of MoonCurve, checked under SpecMoon

Asked == moon # None /\ moon_out # None
MoonRes == Val(moon_out).res
OutsideDark == ~_in_window(MoonRes.local_hour, Val(moon).dark_start_hour,
                           Val(moon).dark_end_hour)

\* C9 as stated: outside the dark window, illumination exactly 0.72 gives
\* on=False; any illumination above 0.72 gives on=True with
\* brightness = max_brightness * (illumination - 0.72) / 0.28.
C9_OffAtThreshold ==
    (Asked /\ OutsideDark) =>
        /\ (MoonRes.illumination = ILLUM_THRESHOLD) => ~MoonRes.on
        /\ (MoonRes.illumination > ILLUM_THRESHOLD) =>
              /\ MoonRes.on
              /\ MoonRes.brightness
                   = Val(moon).max_brightness * (MoonRes.illumination - ILLUM_THRESHOLD)

\* C9 amended: outside the dark window, illumination exactly 0.72 gives on=True
\* with brightness 0, any illumination above 0.72 gives on=True with
\* brightness = max_brightness * (illumination - 0.72) / 0.28, and any
\* illumination below 0.72 gives on=False.
C9_OnFromThreshold ==
    (Asked /\ OutsideDark) =>
        /\ (MoonRes.illumination = ILLUM_THRESHOLD) =>
              (MoonRes.on /\ MoonRes.brightness = 0)
        /\ (MoonRes.illumination > ILLUM_THRESHOLD) =>
              /\ MoonRes.on
              /\ MoonRes.brightness
                   = Val(moon).max_brightness * (MoonRes.illumination - ILLUM_THRESHOLD)
              /\ MoonRes.brightness > 0
        /\ (MoonRes.illumination < ILLUM_THRESHOLD) =>
              (~MoonRes.on /\ MoonRes.brightness = 0)

\* C9 witness: get_state was asked outside the dark window at a time whose
\* illumination is exactly the threshold.
C9_Witness ==
    /\ Asked
    /\ OutsideDark
    /\ MoonRes.illumination = ILLUM_THRESHOLD
    /\ MoonRes.on

----------------------------------------------------------------------------
\* Properties of load_runtime_config, checked under SpecConfig

Resolved == resolved # None /\ Val(resolved).res.exc = ""
ConfigRes == Val(resolved).res
Inherited == InheritedVersions(FileVersions(config_file))

\* C10 as stated: resolving at the exact date of any version returns exactly
\* that version's cumulative snapshot, whether the version is the earliest, the
\* latest or an interior one, and also when two versions carry the same date.
C10_ExactDateIsSnapshot ==
    Resolved =>
        \A k \in 1..Len(Inherited) :
            (Val(resolved).now_date = Inherited[k].date) =>
                /\ ConfigRes.sun_cfg = Get(Inherited[k].cfg, "sun")
                /\ ConfigRes.moon_cfg = Get(Inherited[k].cfg, "moon")


\* the returned sun and moon parts as one mapping, and the same parts of a snapshot
ResParts == [ sun |-> ConfigRes.sun_cfg, moon |-> ConfigRes.moon_cfg ]
Parts(cfg) == [ k \in DOMAIN cfg \cap { "sun", "moon" } |-> cfg[k] ]

\* the consecutive pairs (k, k+1) of the snapshots inh with the request date
\* strictly between their dates
Bracketing(inh) ==
    { k \in 1..(Len(inh) - 1) :
        /\ inh[k].date < Val(resolved).now_date
        /\ Val(resolved).now_date < inh[k + 1].date }

\* every numeric leaf present in both c0 and c1 is c0 + (c1 - c0) * alpha in res
RECURSIVE NumericLeavesInterpolated(_, _, _, _)
NumericLeavesInterpolated(c0, c1, res, alpha) ==
    \A key \in DOMAIN c0 \cap DOMAIN c1 :
        /\ key \in DOMAIN res
        /\ (c0[key].t = "num" /\ c1[key].t = "num") =>
              res[key] = Num(FlAdd(c0[key].v, FlMul(FlSub(c1[key].v, c0[key].v), alpha)))
        /\ (c0[key].t = "dict" /\ c1[key].t = "dict") =>
              /\ res[key].t = "dict"
              /\ NumericLeavesInterpolated(c0[key].v, c1[key].v, res[key].v, alpha)

\* C11: for a request date strictly between two consecutive version dates
\* d0 < d1, every numeric leaf present in both cumulative snapshots is
\* c0 + (c1 - c0) * alpha with alpha = (request - d0).days / (d1 - d0).days, the
\* pair being the consecutive pair that contains the request date; the versions
\* 2024-01-01 {brightness 0.2}, 2024-02-01 {brightness 0.8} resolved at
\* 2024-01-16 give 0.2 + 0.6 * 15/31.
C11_LinearBetween ==
    Resolved =>
        LET inh == Inherited
        IN \A k \in Bracketing(inh) :
              NumericLeavesInterpolated(
                  Parts(inh[k].cfg), Parts(inh[k + 1].cfg), ResParts,
                  FlDiv(Val(resolved).now_date - inh[k].date,
                        inh[k + 1].date - inh[k].date))

\* C11 witness: the scenario's two versions resolved at 2024-01-16, the
\* brightness lying strictly between 0.2 and 0.8.
C11_Witness ==
    /\ Resolved
    /\ FileVersions(config_file) = ScenarioVersions
    /\ Bracketing(Inherited) = { 1 }
    /\ Val(resolved).now_date = ScenarioNow
    /\ ConfigRes.sun_cfg.v["brightness"].v > FlDiv(2, 10)
    /\ ConfigRes.sun_cfg.v["brightness"].v < FlDiv(8, 10)
    /\ ConfigRes.sun_cfg.v["brightness"].v
         = FlAdd(FlDiv(2, 10), FlMul(FlSub(FlDiv(8, 10), FlDiv(2, 10)), FlDiv(15, 31)))


\* the call returned the sun and moon parts of the snapshot cfg
ReturnsSnapshot(cfg) ==
    /\ ConfigRes.sun_cfg = Get(cfg, "sun")
    /\ ConfigRes.moon_cfg = Get(cfg, "moon")

\* C12 as stated: a request date on or before the earliest version date resolves
\* to the earliest version's cumulative snapshot unchanged, and a request date
\* on or after the latest version date resolves to the latest version's
\* cumulative snapshot unchanged.
C12_ClampOutside ==
    Resolved =>
        LET inh == Inherited
        IN /\ (Val(resolved).now_date <= inh[1].date) => ReturnsSnapshot(inh[1].cfg)
           /\ (Val(resolved).now_date >= inh[Len(inh)].date) =>
                 ReturnsSnapshot(inh[Len(inh)].cfg)


\* merged is old overridden by new: where both hold a mapping the merge recurses
\* key by key, any other value of new replaces the old one, a key new does not
\* mention keeps the old value, and no other key appears
RECURSIVE IsMergeOf(_, _, _)
IsMergeOf(merged, old, new) ==
    /\ DOMAIN merged = DOMAIN old \cup DOMAIN new
    /\ \A k \in DOMAIN merged :
          IF k \notin DOMAIN new THEN merged[k] = old[k]
          ELSE IF k \in DOMAIN old /\ old[k].t = "dict" /\ new[k].t = "dict"
          THEN merged[k].t = "dict" /\ IsMergeOf(merged[k].v, old[k].v, new[k].v)
          ELSE merged[k] = new[k]

\* C13: the cumulative snapshot of the k-th version in date order is the
\* left-to-right fold of the recursive merge over versions 1..k (mappings on both
\* sides recurse key by key, any other value is replaced by the later version's,
\* keys a later version does not mention keep the inherited value), and it is
\* the fold of versions 1..k alone, whatever versions dated later are merged
\* after it.
C13_SnapshotIsFold ==
    Resolved =>
        LET inh == Inherited
            raw == RawVersions(FileVersions(config_file))
        IN \A k \in 1..Len(inh) :
              /\ IsMergeOf(inh[k].cfg,
                           IF k = 1 THEN EmptyDict ELSE inh[k - 1].cfg,
                           raw[k].cfg)
              /\ inh[k].cfg = RunningCfg(SubSeq(raw, 1, k), k)

\* C13 witness: three versions were resolved; the second overrides one nested
\* leaf of the first and inherits the other, the third replaces the mapping.
C13_Witness ==
    /\ Resolved
    /\ Len(Inherited) = 3
    /\ Inherited[1].cfg["sun"] = Dict([ B_peak_max |-> Num(FlOne), mode |-> Str("a") ])
    /\ Inherited[2].cfg["sun"] = Dict([ B_peak_max |-> Num(15), mode |-> Str("a") ])
    /\ Inherited[3].cfg["sun"] = Str("off")


\* C14: the resolver fails with a configuration error, returning no
\* configuration, when the version collection is empty or missing and when any
\* version entry has no date field, whatever the position of that entry among
\* otherwise valid entries.
C14_ConfigError ==
    (resolved # None) =>
        LET versions == FileVersions(config_file)
        IN (\/ "versions" \notin DOMAIN config_file
            \/ versions = << >>
            \/ \E i \in 1..Len(versions) : versions[i].date = None)
           => /\ Val(resolved).res.exc = "ValueError"
              /\ DOMAIN Val(resolved).res = { "exc" }

\* C14 witness: a file whose only date-less entry is the last of three was
\* resolved, and the call raised.
C14_Witness ==
    /\ resolved # None
    /\ Len(FileVersions(config_file)) = 3
    /\ FileVersions(config_file)[1].date # None
    /\ FileVersions(config_file)[2].date # None
    /\ FileVersions(config_file)[3].date = None
    /\ Val(resolved).res = NoCfg


----------------------------------------------------------------------------
\* Further properties of SunCurve, checked under SpecSun

\* C15 as stated, for SunCurve's quantized colour output: when T_max <= T_min
\* the Kelvin-to-device mapping _cct_to_0_1000 returns the midpoint 500 and
\* does not raise, for T_max == T_min and for T_max < T_min.
C15_MidpointWhenDegenerate ==
    (Sampled /\ ~Val(sun_out).raw /\ SunRes.is_on /\ Curve.T_max <= Curve.T_min) =>
        /\ SunRes.exc = ""
        /\ SunRes.C = 500


----------------------------------------------------------------------------
\* Properties of linear_to_pwm, checked under SpecGamut

Quantized == pwm # None
PwmIn == Val(pwm)
PwmRes == Val(pwm).res

\* C16 as stated: linear_to_pwm never raises on an empty lookup table; called
\* with lut = [] it returns round(clamp01(x) * pwm_max).
C16_EmptyLutIdentity ==
    (Quantized /\ PwmIn.lut = Some(<< >>)) =>
        /\ PwmRes.exc = ""
        /\ PwmRes.value = IntRound(clamp(PwmIn.x, 0, XScale) * PwmIn.pwm_max, XScale)


----------------------------------------------------------------------------
\* Further properties of MoonCurve, checked under SpecMoon

DarkStart == Val(moon).dark_start_hour % DayMin
DarkEnd == Val(moon).dark_end_hour % DayMin
\* the dark window as the two cases describe it
InDarkWindow ==
    \/ DarkStart < DarkEnd /\ DarkStart <= MoonRes.local_hour /\ MoonRes.local_hour < DarkEnd
    \/ DarkStart > DarkEnd /\ (MoonRes.local_hour >= DarkStart \/ MoonRes.local_hour < DarkEnd)

\* C17: get_state returns on=True exactly when the local hour is outside the
\* dark window and the illumination passes the phase gate; for start < end the
\* window is start <= hour < end, for start > end it is hour >= start or
\* hour < end; inside the window the result is on=False with brightness 0
\* whatever the lunar phase.
C17_OnIffOutsideAndBright ==
    (Asked /\ DarkStart # DarkEnd) =>
        /\ MoonRes.on <=> (~InDarkWindow /\ MoonRes.illumination >= ILLUM_THRESHOLD)
        /\ InDarkWindow => (~MoonRes.on /\ MoonRes.brightness = 0)

\* C17 witness: a window wrapping midnight, asked at exactly its end hour under
\* a moon bright enough: the light is on.
C17_Witness ==
    /\ Asked
    /\ DarkStart > DarkEnd
    /\ MoonRes.local_hour = DarkEnd
    /\ MoonRes.illumination > ILLUM_THRESHOLD
    /\ MoonRes.on
    /\ MoonRes.brightness > 0


\* C19: for every time t and every SunCurve with T_min < T_max,
\* sample(t, raw=False) returns integer brightness and integer colour that each
\* lie in 0..1000, also when the unclipped peak 2*H_eq/D exceeds 1; when is_on
\* is False both are 0.
C19_QuantizedInRange ==
    (Sampled /\ ~Val(sun_out).raw /\ Curve.T_min < Curve.T_max) =>
        /\ SunRes.exc = ""
        /\ SunRes.B \in 0..1000
        /\ SunRes.C \in 0..1000
        /\ ~SunRes.is_on => (SunRes.B = 0 /\ SunRes.C = 0)

\* C19 witness: a curve whose unclipped peak exceeds 1, sampled in quantized
\* mode where the raw brightness is above 1: the brightness returned is 1000.
C19_Witness ==
    /\ Sampled
    /\ ~Val(sun_out).raw
    /\ Curve.T_min < Curve.T_max
    /\ Curve.a_unclipped > BScale
    /\ _brightness_float(Curve, Val(sun_out).t_hours) > BScale
    /\ SunRes.is_on
    /\ SunRes.B = 1000
    /\ SunRes.C \in 1..1000


\* C20: for every pair t_start, t_end the day-window length
\* D = (t_end - t_start) mod 24 satisfies 0 < D <= 24, with t_end == t_start
\* (mod 24) giving D = 24; when D = 24 every time of day has an offset in [0, D]
\* and is inside the window.
C20_WindowLength ==
    Sampled =>
        /\ 0 < Curve.D /\ Curve.D <= DayMin
        /\ (Curve.t_start # Curve.t_end) => Curve.D = (Curve.t_end - Curve.t_start) % DayMin
        /\ (Curve.t_start = Curve.t_end) => Curve.D = DayMin
        /\ (Curve.D = DayMin) =>
              /\ 0 <= SunOffset /\ SunOffset <= Curve.D
              /\ _local_offset_and_phase(Curve, Val(sun_out).t_hours).inside
              /\ SunRes.is_on <=> (_brightness_float(Curve, Val(sun_out).t_hours) > 0)

\* C20 witness: a curve with t_end == t_start sampled more than half a day
\* after t_start: D is 24 and the light is on.
C20_Witness ==
    /\ Sampled
    /\ Curve.t_start = Curve.t_end
    /\ Curve.D = DayMin
    /\ SunOffset > DayMin \div 2
    /\ SunRes.is_on


----------------------------------------------------------------------------
\* Further properties of load_runtime_config, checked under SpecConfig

\* alpha of the bracketing pair (k, k+1) of the snapshots inh
AlphaOf(inh, k) ==
    FlDiv(Val(resolved).now_date - inh[k].date, inh[k + 1].date - inh[k].date)

\* every leaf present in both c0 and c1 that is neither numeric on both sides
\* nor a mapping on both sides is c0's in res when alpha < 0.5 and c1's otherwise
RECURSIVE OtherLeavesNearest(_, _, _, _)
OtherLeavesNearest(c0, c1, res, alpha) ==
    \A key \in DOMAIN c0 \cap DOMAIN c1 :
        /\ key \in DOMAIN res
        /\ IF c0[key].t = "num" /\ c1[key].t = "num" THEN TRUE
           ELSE IF c0[key].t = "dict" /\ c1[key].t = "dict"
           THEN /\ res[key].t = "dict"
                /\ OtherLeavesNearest(c0[key].v, c1[key].v, res[key].v, alpha)
           ELSE res[key] = IF 2 * alpha < FlOne THEN c0[key] ELSE c1[key]

\* C21: for a request date strictly between two version dates, a leaf that is
\* not numeric on both sides and not a mapping on both sides takes the earlier
\* snapshot's value when alpha < 0.5 and the later snapshot's value when
\* alpha >= 0.5, so an exact midpoint picks the later endpoint.
C21_NearestEndpoint ==
    Resolved =>
        LET inh == Inherited
        IN \A k \in Bracketing(inh) :
              OtherLeavesNearest(Parts(inh[k].cfg), Parts(inh[k + 1].cfg), ResParts,
                                 AlphaOf(inh, k))

\* C21 witness: a request exactly midway between a version with mode "a" and a
\* later one with mode "b" returned mode "b".
C21_Witness ==
    /\ Resolved
    /\ Len(Inherited) = 2
    /\ Bracketing(Inherited) = { 1 }
    /\ 2 * AlphaOf(Inherited, 1) = FlOne
    /\ Inherited[1].cfg["sun"].t = "dict"
    /\ Inherited[2].cfg["sun"].t = "dict"
    /\ Inherited[1].cfg["sun"].v = [ B_peak_max |-> Num(FlOne), mode |-> Str("a") ]
    /\ Inherited[2].cfg["sun"].v = [ B_peak_max |-> Num(FlOne), mode |-> Str("b") ]
    /\ ConfigRes.sun_cfg = Dict([ B_peak_max |-> Num(FlOne), mode |-> Str("b") ])


\* every parameter of c1 that c0 does not have is in res with c1's value, at
\* any depth, also below a key that holds a mapping only in c1
RECURSIVE OnlyLaterKept(_, _, _)
OnlyLaterKept(c0, c1, res) ==
    \A key \in DOMAIN c1 :
        /\ key \in DOMAIN res
        /\ IF key \notin DOMAIN c0 THEN res[key] = c1[key]
           ELSE IF c1[key].t # "dict" THEN TRUE
           ELSE IF c0[key].t = "dict"
           THEN res[key].t = "dict" /\ OnlyLaterKept(c0[key].v, c1[key].v, res[key].v)
           ELSE c1[key].v = EmptyDict \/ res[key] = c1[key]

\* every key of c1 that c0 does not have, in a mapping that both c0 and c1
\* hold, is in res with c1's value
RECURSIVE NewKeysKept(_, _, _)
NewKeysKept(c0, c1, res) ==
    \A key \in DOMAIN c1 :
        /\ key \in DOMAIN res
        /\ IF key \notin DOMAIN c0 THEN res[key] = c1[key]
           ELSE (c0[key].t = "dict" /\ c1[key].t = "dict") =>
                   /\ res[key].t = "dict"
                   /\ NewKeysKept(c0[key].v, c1[key].v, res[key].v)

\* C29 as stated: for a request date strictly between two version dates
\* d0 < d1, a parameter that exists only in the later cumulative snapshot is
\* returned with the later version's full value for every such date, neither
\* interpolated nor omitted.
C29_OnlyLaterKept ==
    Resolved =>
        LET inh == Inherited
        IN \A k \in Bracketing(inh) :
              OnlyLaterKept(Parts(inh[k].cfg), Parts(inh[k + 1].cfg), ResParts)

\* C29 amended: for a request date strictly between two version dates d0 < d1,
\* a key that only the later cumulative snapshot has, at the top level or inside
\* mappings that both snapshots hold, is returned with the later version's full
\* value for every such date.
C29_NewKeysKept ==
    Resolved =>
        LET inh == Inherited
        IN \A k \in Bracketing(inh) :
              NewKeysKept(Parts(inh[k].cfg), Parts(inh[k + 1].cfg), ResParts)

\* C29 witness: between a version holding only sun.B_peak_max and a later one
\* adding sun.mode and moon.enabled, both new keys are returned in full.
C29_Witness ==
    /\ Resolved
    /\ Len(Inherited) = 2
    /\ Bracketing(Inherited) = { 1 }
    /\ Inherited[1].cfg = [ sun |-> Dict([ B_peak_max |-> Num(15) ]) ]
    /\ Inherited[2].cfg = [ sun |-> Dict([ B_peak_max |-> Num(15), mode |-> Str("b") ]),
                            moon |-> Dict([ enabled |-> Bool(TRUE) ]) ]
    /\ ConfigRes.sun_cfg = Dict([ B_peak_max |-> Num(15), mode |-> Str("b") ])
    /\ ConfigRes.moon_cfg = Dict([ enabled |-> Bool(TRUE) ])


----------------------------------------------------------------------------
\* Properties of get_multiplier called from two threads, checked under SpecRace

\* the value of last_ts that the call of c computed its dt from (line 247)
ReadFrom(c) == now_ts[c] - dt[c]
\* the call of c has returned after stepping drop and shimmer_state with dt > 0
SteppedCall(c) ==
    /\ pc[c] = "done"
    /\ base_brightness[c] > 0
    /\ Len(step_dt[c]) = 2
    /\ step_dt[c][1] > 0 /\ step_dt[c][2] > 0
\* the calls of a and b both stepped the processes over an interval that
\* starts at the same last_ts
DoubleCounted(a, b) ==
    /\ a # b
    /\ SteppedCall(a) /\ SteppedCall(b)
    /\ ReadFrom(a) = ReadFrom(b)
\* one of the calls of a and b began while the other was inside get_multiplier
Overlapped(a, b) == b \in entry[a].in_progress \/ a \in entry[b].in_progress

\* at most one caller is inside get_multiplier
Serialized == Cardinality({ c \in Callers : pc[c] \notin {"idle", "done"} }) <= 1

\* C22: in a behaviour whose calls are serialized, no two calls step drop and
\* shimmer_state for an interval starting at the same last_ts: dt is counted
\* twice only when calls on the instance have interleaved.
C22_SerializedNeverDoubleCounts ==
    ([]Serialized) => [](\A a, b \in Callers : ~DoubleCounted(a, b))

\* C22 witness: two overlapping calls made at the same timestamp have both
\* returned; each computed the same dt > 0 from the same last_ts, and each
\* stepped drop and shimmer_state with it.
C22_Witness ==
    \E a, b \in Callers :
        /\ DoubleCounted(a, b)
        /\ Overlapped(a, b)
        /\ now_ts[a] = now_ts[b]
        /\ dt[a] = dt[b]
        /\ draws[a].gauss = 2 /\ draws[b].gauss = 2
        /\ last_ts = Some(now_ts[a])


----------------------------------------------------------------------------
\* Further properties of CloudDeltaWithShimmer, checked under Spec

\* shimmer_multiplier = 1 + local_amp * shimmer_state, in 1/(AmpScale * ShimScale)
ShimmerMultiplier == AmpScale * ShimScale + LocalAmp(Cfg) * shimmer_state
\* the call of c has returned from line 276, after lines 255-274
OnTickReturned(c) == Returned(c) /\ base_brightness[c] > 0

\* C23: the factor of an on-tick is (1 - max(0, -drop)) * shimmer_multiplier
\* clamped to [0, max_factor]; the cloud part is at most 1, and exactly 1 for
\* drop >= 0, so the factor never exceeds the shimmer multiplier; a returned
\* factor above 1 occurs only with shimmer_state > 0.
C23_CloudsOnlyDim ==
    \A c \in Callers :
        /\ OnTickReturned(c) =>
              LET cloud == DropScale - Max(0, -drop)
              IN /\ ret[c] = Some(Max(0, Min(MaxFactor(Cfg), cloud * ShimmerMultiplier)))
                 /\ cloud <= DropScale
                 /\ (drop >= 0) => (cloud = DropScale)
                 /\ Val(ret[c]) <= DropScale * ShimmerMultiplier
        /\ (Returned(c) /\ Val(ret[c]) > One) => shimmer_state > 0

\* C23 witness: an on-tick that stepped the processes returns exactly 1.0 with
\* a positive drop and a shimmer state of 0.
C23_Witness ==
    \E c \in Callers :
        /\ OnTickReturned(c)
        /\ draws[c].gauss = 2
        /\ drop > 0
        /\ shimmer_state = 0
        /\ ret[c] = Some(One)


\* the call of c has just run _step_cloud_drop (line 255)
AfterStepDrop(c) == pc[c] = "step_shimmer"
\* the dimming that a drop gives: max(0, -drop)
Dimming(d) == Max(0, -d)
\* the values drop can have after the OU update and clamp of lines 194-198
OuResults(c) ==
    { OuDrop(Cfg, DropAfterEnsure(c), step_dt[c][1], n) : n \in GaussValues }
\* d multiplied by (1 - burst_strength) and clamped to [min_drop, max_drop]
Pulled(d) ==
    Max(Cfg.min_drop, Min(Cfg.max_drop, RoundDiv(d * (10 - Cfg.burst_strength), 10)))
\* the drop left by _step_cloud_drop is no result of the OU update alone
BurstHappened(c) == AfterStepDrop(c) /\ drop \notin OuResults(c)

\* C24: the burst test is drawn only in a call that steps the cloud process
\* (base_brightness > 0 and dt > 0) for a day type with burst_prob_per_min > 0;
\* the drop left by the step is the OU result d1 or, after a burst test, d1
\* multiplied by (1 - burst_strength) and clamped to [min_drop, max_drop],
\* whose dimming max(0, -drop) is not above that of d1; a day type with
\* burst_prob_per_min = 0 draws no burst test and leaves the OU result.
C24_BurstOnlyBrightens ==
    \A c \in Callers :
        AfterStepDrop(c) =>
            /\ draws[c].burst <= 1
            /\ (draws[c].burst = 1) =>
                  /\ base_brightness[c] > 0
                  /\ dt[c] > 0 /\ step_dt[c][1] > 0
                  /\ Cfg.burst_prob_per_min > 0
            /\ (Cfg.burst_prob_per_min = 0) =>
                  (draws[c].burst = 0 /\ ~BurstHappened(c))
            /\ BurstHappened(c) =>
                  /\ draws[c].burst = 1
                  /\ \E d1 \in OuResults(c) :
                        /\ drop = Pulled(d1)
                        /\ Dimming(drop) <= Dimming(d1)
                        /\ Cfg.min_drop <= drop /\ drop <= Cfg.max_drop

\* C24 witness: a burst on a very cloudy day has pulled a negative drop towards
\* 0: the dimming after the step is below that of every OU result.
C24_Witness ==
    \E c \in Callers :
        /\ BurstHappened(c)
        /\ Cfg.name = "very_cloudy"
        /\ drop < 0
        /\ \A d1 \in OuResults(c) : d1 < 0 => Dimming(drop) < Dimming(d1)


\* the call of c is past _ensure_day_state (line 242)
PastEnsure(c) == pc[c] \notin {"idle", "ensure_day"}

\* C25: current_day_key and current_day_type change, and a day type is drawn,
\* only in a call whose timestamp falls on another local calendar day than
\* current_day_key; a call on the same calendar day draws no day type and its
\* _ensure_day_state leaves drop and shimmer_state as they were.
C25_DayStateFrame ==
    \A c \in Callers :
        PastEnsure(c) =>
            /\ (\/ current_day_key # entry[c].current_day_key
                \/ current_day_type # entry[c].current_day_type
                \/ draws[c].pick > 0) => ~SameDay(c)
            /\ SameDay(c) =>
                  /\ draws[c].pick = 0
                  /\ current_day_key = entry[c].current_day_key
                  /\ current_day_type = entry[c].current_day_type
                  /\ (pc[c] \in {"read_dt", "write_ts", "check_off", "step_drop"}) =>
                        /\ drop = entry[c].drop
                        /\ shimmer_state = entry[c].shimmer_state

\* C25 witness: a call on the day of current_day_key, made with drop away from
\* the centre and a shimmer state away from 0, has returned without a draw of
\* the day type and with drop and shimmer_state kept.
C25_Witness ==
    \E c \in Callers :
        /\ Returned(c)
        /\ SameDay(c)
        /\ draws[c].pick = 0
        /\ entry[c].drop # Cfg.center_drop
        /\ entry[c].shimmer_state # 0
        /\ drop = entry[c].drop
        /\ shimmer_state = entry[c].shimmer_state


\* C27: after every get_multiplier call, the first one included, on on-ticks
\* and off-ticks and right after a day change, drop lies within
\* [min_drop, max_drop] of the current day type and shimmer_state lies within
\* [-1, 1].
C27_StateInRange ==
    \A c \in Callers :
        Returned(c) =>
            /\ current_day_type # None
            /\ Cfg.min_drop <= drop /\ drop <= Cfg.max_drop
            /\ -ShimScale <= shimmer_state /\ shimmer_state <= ShimScale

\* C27 witness: an on-tick has returned with drop on the lower bound of the day
\* type, where only the clamp holds it, and with shimmer_state on a bound.
C27_Witness ==
    \E c \in Callers :
        /\ OnTickReturned(c)
        /\ draws[c].gauss = 2
        /\ drop = Cfg.min_drop
        /\ \E n \in GaussValues :
              OuDropUnclamped(Cfg, DropAfterEnsure(c), step_dt[c][1], n) < Cfg.min_drop
        /\ Abs(shimmer_state) = ShimScale


\* the call of c is the first call on the instance
FirstCall(c) == entry[c].last_ts = None /\ entry[c].current_day_key = None

\* C28: the first get_multiplier call on a new instance with
\* base_brightness > 0 has dt = 0: it makes no OU step, no burst test and no
\* noise draw, its only random draw is the day-type selection, and it returns
\* 1 - max(0, -center_drop) of the drawn day type, clamped to
\* [0, 1 + shimmer_amp * shimmer_boost].
C28_FirstCall ==
    \A c \in Callers :
        (OnTickReturned(c) /\ FirstCall(c)) =>
            /\ dt[c] = 0
            /\ step_dt[c] = << 0, 0 >>
            /\ draws[c] = [ pick |-> 1, gauss |-> 0, burst |-> 0 ]
            /\ drop = Cfg.center_drop
            /\ shimmer_state = 0
            /\ ret[c] = Some(Max(0, Min(MaxFactor(Cfg),
                    (DropScale - Max(0, -Cfg.center_drop)) * AmpScale * ShimScale)))

\* C28 witness: the first call, made at a timestamp after 0 on a very cloudy
\* day, returns the factor of the day's centre, below 1.0.
C28_Witness ==
    \E c \in Callers :
        /\ OnTickReturned(c)
        /\ FirstCall(c)
        /\ now_ts[c] > 0
        /\ Cfg.name = "very_cloudy"
        /\ Val(ret[c]) = (DropScale + Cfg.center_drop) * AmpScale * ShimScale
        /\ Val(ret[c]) < One


----------------------------------------------------------------------------
\* Further properties of MoonCurve, checked under SpecMoon

\* dark_start_hour and dark_end_hour of the curve are equal modulo 24
WindowEqualMod24 ==
    Val(moon).dark_start_hour % DayMin = Val(moon).dark_end_hour % DayMin

\* C30: when dark_start_hour and dark_end_hour are equal modulo 24, the dark
\* window covers the whole day: _in_window is true at every hour, and
\* get_state returns on = False with brightness 0 at every time and every
\* lunar phase.
C30_EqualWindowAlwaysDark ==
    (Asked /\ WindowEqualMod24) =>
        /\ \A h \in 0..(DayMin - 1) :
              _in_window(h, Val(moon).dark_start_hour, Val(moon).dark_end_hour)
        /\ MoonRes.on = FALSE
        /\ MoonRes.brightness = 0

\* C30 witness: a curve with the dark window 3:00-27:00 is asked at full moon
\* and is off.
C30_Witness ==
    /\ Asked
    /\ WindowEqualMod24
    /\ Val(moon).dark_start_hour # Val(moon).dark_end_hour
    /\ MoonRes.illumination = IllumScale
    /\ MoonRes.on = FALSE


----------------------------------------------------------------------------
\* Properties of the daemon's tick, checked under SpecDaemon

Ticked == tick # None
LastTick == Val(tick)
\* the lamp was sent a non-zero brightness in the last tick
SentOn == LastTick.sent # None /\ Val(LastTick.sent).power
\* the sun is on and its unclouded device brightness is at least the moon's
SunDominates == LastTick.sun_on /\ LastTick.B_sun_raw_dev >= LastTick.B_moon_raw_dev
\* the colour temperature follows the source that dominates before the clouds
ColourOfDominant ==
    /\ LastTick.dominant_source = (IF SunDominates THEN "sun" ELSE "moon")
    /\ SentOn =>
          /\ Val(LastTick.sent).bright = LastTick.B_combined
          /\ Val(LastTick.sent).bright > 0
          /\ Val(LastTick.sent).cct =
                (IF SunDominates THEN LastTick.C_sun_dev ELSE moon_cct_dev)
\* max(sun, moon) times the cloud factor, rounded to a device step
Clouded == IntRound(Max(LastTick.B_sun_raw_dev, LastTick.B_moon_raw_dev)
                    * LastTick.cloud_factor, FactorUnit)

====
